---- MODULE Spec2Model ----
(***************************************************************************)
(* A model of lib/Configuration.py of freenas-pkgtools.                    *)
(*                                                                         *)
(* Part 1: class PackageDB, the sqlite store of installed packages, their  *)
(* scripts and the files they own.  A table is the sequence of its rows in *)
(* rowid order; one action is one public method, run to its return or to   *)
(* the exception it raises.                                                *)
(***************************************************************************)
EXTENDS Integers, Sequences, FiniteSets, TLC

(***************************************************************************)
(* Bounds of the model.                                                    *)
(***************************************************************************)
NumNames == 2
NumVersions == 2
NumPaths == 2
MaxBulk == 2
MaxBody == 2
FreeBytes == 1

(***************************************************************************)
(* Value universes.                                                        *)
(***************************************************************************)
NameList == <<"base", "docs", "extra", "ports">>
Names == {NameList[i] : i \in 1..NumNames}

VersionList == <<"1.0", "1.1", "2.0">>
Versions == {VersionList[i] : i \in 1..NumVersions}

\* The script types and bodies are labels to the store.
ScriptTypes == {"pre-install"}
ScriptBodies == {"echo a", "echo b"}

\* Python's None.
None == "None"

\* A path is the tuple of its characters; "/a/b" is <<"/", "a", "/", "b">>.
PathList ==
    << <<"/", "a">>,
       <<"/", "a", "/", "b">>,
       <<"/", "a", "/", "b", "/", "c">>,
       <<"/", "a", "-", "b">>,
       <<"/", "b">> >>
Paths == {PathList[i] : i \in 1..NumPaths}

Kinds == {"file", "dir"}

\* The byte value of a character (the paths are ASCII).
Ord(c) ==
    CASE c = "-" -> 45
      [] c = "/" -> 47
      [] c = "a" -> 97
      [] c = "b" -> 98
      [] c = "c" -> 99

\* sqlite's BINARY collation on text: memcmp of the common prefix, then the
\* shorter string first.
RECURSIVE PathLess(_, _)
PathLess(p, q) ==
    IF q = <<>> THEN FALSE
    ELSE IF p = <<>> THEN TRUE
    ELSE IF Ord(Head(p)) # Ord(Head(q)) THEN Ord(Head(p)) < Ord(Head(q))
    ELSE PathLess(Tail(p), Tail(q))

\* A scripts argument is None or a dict; a dict is given as the sequence of
\* its (type, script) items in the order scripts.keys() yields them, and its
\* keys are distinct.
RECURSIVE DictsOver(_)
DictsOver(types) ==
    {<<>>} \cup
    UNION { { <<[type |-> t, script |-> b]>> \o d : d \in DictsOver(types \ {t}) }
            : <<t, b>> \in types \X ScriptBodies }
ScriptArgs ==
    {[isNone |-> TRUE, items |-> <<>>]} \cup
    {[isNone |-> FALSE, items |-> d] : d \in DictsOver(ScriptTypes)}

VARIABLES
    packages,   \* table packages: set of [name, version] rows (name is the key)
    scripts,    \* table scripts: sequence of [package, type, script] rows
    files,      \* table files: sequence of [package, path, kind] rows
    conn,       \* PackageDB.__conn: "open" or "closed"
    op,         \* the method called last
    result,     \* how that call ended: the returned value or the error raised
    warned,     \* whether that call wrote a log.warn / log.error line
    events,     \* what that call did to the filesystem and to table files, in order
    disk,       \* the file at the pathname given to TryGetNetworkFile
    stream,     \* the file object returned last
    package_dir,  \* Configuration._package_dir
    saved,      \* the files in the directory that FindPackageFile saves to
    config      \* Configuration: _update_servers, _update_server_name,
                \* _upd_conf_mtime and the file at _config_path

vars == <<packages, scripts, files, conn, op, result, warned, events, disk, stream,
          package_dir, saved, config>>

(***************************************************************************)
(* sqlite statements.                                                      *)
(***************************************************************************)
\* SELECT name, version FROM packages WHERE name = ?  (fetchone)
FindPackage(pkgs, pkgName) ==
    IF \E r \in pkgs : r.name = pkgName
    THEN (CHOOSE r \in pkgs : r.name = pkgName).version
    ELSE None

\* SELECT type, script FROM scripts WHERE package = ?  (fetchall, as rows)
ScriptRowsOf(scr, pkgName) == SelectSeq(scr, LAMBDA r : r.package = pkgName)

\* The dict FindScriptForPackage builds from those rows: a later row of a
\* type overwrites an earlier one.
FindScriptForPackage(scr, pkgName) ==
    LET rows == ScriptRowsOf(scr, pkgName)
        last(t) == CHOOSE i \in DOMAIN rows :
                      /\ rows[i].type = t
                      /\ \A j \in DOMAIN rows : rows[j].type = t => j <= i
    IN  [t \in {rows[i].type : i \in DOMAIN rows} |-> rows[last(t)].script]

\* SELECT ... FROM files WHERE package = ?
FindFilesForPackage(fls, pkgName) == SelectSeq(fls, LAMBDA r : r.package = pkgName)

\* SELECT * FROM files WHERE path = ?  (fetchone is not None)
FindFile(fls, path) == \E i \in DOMAIN fls : fls[i].path = path

\* UpdatePackage and RemovePackageScripts without their DELETE.
DeleteScripts_Nothing(scr, pkgName) == scr

\* DELETE FROM scripts WHERE package = ?
DeleteScripts(scr, pkgName) == SelectSeq(scr, LAMBDA r : r.package # pkgName)

\* for scriptType in scripts.keys(): INSERT INTO scripts(package, type, script)
InsertScripts(scr, pkgName, scriptArg) ==
    IF scriptArg.isNone THEN scr
    ELSE scr \o [i \in DOMAIN scriptArg.items |->
                    [package |-> pkgName,
                     type    |-> scriptArg.items[i].type,
                     script  |-> scriptArg.items[i].script]]

\* UPDATE packages SET version = ? WHERE name = ?
SetVersion(pkgs, pkgName, newVers) ==
    {IF r.name = pkgName THEN [r EXCEPT !.version = newVers] ELSE r : r \in pkgs}

\* DELETE FROM packages WHERE name = ?
DeletePackage(pkgs, pkgName) == {r \in pkgs : r.name # pkgName}

(***************************************************************************)
(* A run of a method: the tables, the connection and the outcome it leaves *)
(* behind, as a function of the tables it found.                           *)
(***************************************************************************)
Outcome(pkgs, scr, fls, c, res, w, evs) ==
    [packages |-> pkgs, scripts |-> scr, files |-> fls, conn |-> c,
     result |-> res, warned |-> w, events |-> evs]

(***************************************************************************)
(* The catalogue operations.                                               *)
(***************************************************************************)
\* AddPackage without its FindPackage check, on a table that took the row.
AddPackageRun_NoCheck(pkgs, scr, fls, pkgName, vers, scriptArg) ==
    Outcome({r \in pkgs : r.name # pkgName} \cup {[name |-> pkgName, version |-> vers]},
            InsertScripts(scr, pkgName, scriptArg),
            fls, "closed", None, FALSE, <<>>)

AddPackageRun(pkgs, scr, fls, pkgName, vers, scriptArg) ==
    IF FindPackage(pkgs, pkgName) # None
    THEN Outcome(pkgs, scr, fls, "closed", "AlreadyExists", FALSE, <<>>)
    ELSE Outcome(pkgs \cup {[name |-> pkgName, version |-> vers]},
                 InsertScripts(scr, pkgName, scriptArg),
                 fls, "closed", None, FALSE, <<>>)

\* UpdatePackage without its return for an unchanged version.
UpdatePackageGuard_NoUnchanged(pkgs, pkgName, curVers, newVers) ==
    LET cur == FindPackage(pkgs, pkgName) IN
    IF cur = None THEN "NotFound"
    ELSE IF cur # curVers THEN "VersionMismatch"
    ELSE "update"

\* The checks of UpdatePackage: the raise or return the call ends in.
UpdatePackageGuard(pkgs, pkgName, curVers, newVers) ==
    LET cur == FindPackage(pkgs, pkgName) IN
    IF cur = None THEN "NotFound"
    ELSE IF cur # curVers THEN "VersionMismatch"
    ELSE IF cur = newVers THEN "unchanged"
    ELSE "update"

UpdatePackageRun(pkgs, scr, fls, pkgName, curVers, newVers, scriptArg) ==
    LET guard == UpdatePackageGuard(pkgs, pkgName, curVers, newVers) IN
    IF guard = "update"
    THEN Outcome(SetVersion(pkgs, pkgName, newVers),
                 InsertScripts(DeleteScripts(scr, pkgName), pkgName, scriptArg),
                 fls, "closed", None, FALSE, <<>>)
    ELSE IF guard = "unchanged"
    THEN Outcome(pkgs, scr, fls, "closed", None, TRUE, <<>>)
    ELSE Outcome(pkgs, scr, fls, "closed", guard, FALSE, <<>>)

\* RemovePackage without its look at the scripts table.
RemovePackageGuard_NoScriptsCheck(pkgs, scr, fls, pkgName) ==
    IF FindPackage(pkgs, pkgName) = None THEN "delete"
    ELSE IF Len(FindFilesForPackage(fls, pkgName)) # 0 THEN "files"
    ELSE "delete"

\* RemovePackage without its look at the files table.
RemovePackageGuard_NoFilesCheck(pkgs, scr, fls, pkgName) ==
    IF FindPackage(pkgs, pkgName) = None THEN "delete"
    ELSE IF DOMAIN FindScriptForPackage(scr, pkgName) # {} THEN "scripts"
    ELSE "delete"

\* The checks of RemovePackage: the raise, if any, the call ends in.
RemovePackageGuard(pkgs, scr, fls, pkgName) ==
    IF FindPackage(pkgs, pkgName) = None THEN "delete"
    ELSE IF Len(FindFilesForPackage(fls, pkgName)) # 0 THEN "files"
    ELSE IF DOMAIN FindScriptForPackage(scr, pkgName) # {} THEN "scripts"
    ELSE "delete"

\* The DELETE of RemovePackage removed a row.
DeletePackageRowEv == [ev |-> "DeletePackageRow", path |-> <<>>, ok |-> TRUE]

RemovePackageRun(pkgs, scr, fls, pkgName) ==
    IF RemovePackageGuard(pkgs, scr, fls, pkgName) = "delete"
    THEN Outcome(DeletePackage(pkgs, pkgName), scr, fls, "closed", None, FALSE,
                 IF DeletePackage(pkgs, pkgName) # pkgs THEN <<DeletePackageRowEv>> ELSE <<>>)
    ELSE Outcome(pkgs, scr, fls, "closed", "IntegrityError", TRUE, <<>>)

(***************************************************************************)
(* The file rows.                                                          *)
(***************************************************************************)
FileRow(pkgName, path, kind) ==
    [package |-> pkgName, path |-> path, kind |-> kind,
     checksum |-> [isNone |-> TRUE, sha256 |-> <<>>], uid |-> 0, gid |-> 0, mode |-> 0]
FileRows == {FileRow(n, p, k) : <<n, p, k>> \in Names \X Paths \X Kinds}

\* INSERT INTO files(...) VALUES(...)
InsertFile(fls, row) == Append(fls, row)

\* UPDATE files SET package = ?, kind = ?, path = ?, ... WHERE path = ?
UpdateFile(fls, row) ==
    [i \in DOMAIN fls |-> IF fls[i].path = row.path THEN row ELSE fls[i]]

\* DELETE FROM files WHERE path = ?
DeleteFile(fls, path) == SelectSeq(fls, LAMBDA r : r.path # path)

\* A plain INSERT into a table without the primary key.
InsertOrReplace_Insert(fls, row) == Append(fls, row)

\* INSERT OR REPLACE INTO files(...): path is the primary key (l.158), so the
\* row that holds the path is deleted before the new row is inserted.
InsertOrReplace(fls, row) == Append(DeleteFile(fls, row.path), row)

\* cur.executemany(stmt, list)
RECURSIVE ExecuteManyReplace(_, _)
ExecuteManyReplace(fls, list) ==
    IF list = <<>> THEN fls
    ELSE ExecuteManyReplace(InsertOrReplace(fls, Head(list)), Tail(list))

\* cur.executemany("DELETE FROM files WHERE path = ?", list)
RECURSIVE ExecuteManyDelete(_, _)
ExecuteManyDelete(fls, list) ==
    IF list = <<>> THEN fls
    ELSE ExecuteManyDelete(DeleteFile(fls, Head(list)), Tail(list))

\* A statement overwrote the row that held the path.
ReplaceRowEv(path) == [ev |-> "ReplaceRow", path |-> path, ok |-> TRUE]

\* The rows that a run of executemany(stmt, list) overwrites, in order.
RECURSIVE ReplacedBy(_, _)
ReplacedBy(fls, list) ==
    IF list = <<>> THEN <<>>
    ELSE (IF FindFile(fls, Head(list).path) THEN <<ReplaceRowEv(Head(list).path)>> ELSE <<>>)
         \o ReplacedBy(InsertOrReplace(fls, Head(list)), Tail(list))

AddFilesBulkRun(pkgs, scr, fls, list) ==
    Outcome(pkgs, scr, ExecuteManyReplace(fls, list), "closed", None, FALSE,
            ReplacedBy(fls, list))

AddFileRun(pkgs, scr, fls, pkgName, path, kind) ==
    IF FindFile(fls, path)
    THEN Outcome(pkgs, scr, UpdateFile(fls, FileRow(pkgName, path, kind)),
                 "closed", None, FALSE, <<ReplaceRowEv(path)>>)
    ELSE Outcome(pkgs, scr, InsertFile(fls, FileRow(pkgName, path, kind)),
                 "closed", None, FALSE, <<>>)

\* FindFile(path): the row of the path, here the package that owns it.
FindFileRun(pkgs, scr, fls, path) ==
    Outcome(pkgs, scr, fls, "closed",
            IF FindFile(fls, path)
            THEN fls[CHOOSE i \in DOMAIN fls : fls[i].path = path].package
            ELSE None,
            FALSE, <<>>)

RemoveFileEntryRun(pkgs, scr, fls, path) ==
    Outcome(pkgs, scr, IF FindFile(fls, path) THEN DeleteFile(fls, path) ELSE fls,
            "closed", None, FALSE, <<>>)

(***************************************************************************)
(* Removal of a package's contents.  Installer.RemoveFile and              *)
(* Installer.RemoveDirectory act on the live filesystem; the set `failing` *)
(* holds the paths whose removal the filesystem refuses (they return       *)
(* False there and True elsewhere).                                        *)
(***************************************************************************)
RemoveFileEv(path, ok) == [ev |-> "RemoveFile", path |-> path, ok |-> ok]
RemoveDirectoryEv(path, ok) == [ev |-> "RemoveDirectory", path |-> path, ok |-> ok]
DeleteRowEv(path) == [ev |-> "DeleteRow", path |-> path, ok |-> TRUE]

Installer_RemoveFile(path, failing) == path \notin failing
Installer_RemoveDirectory(path, failing) == path \notin failing

\* The index of the first element of the list that is in the set, 0 if none is.
FirstIn(list, set) ==
    IF \E i \in DOMAIN list : list[i] \in set
    THEN CHOOSE i \in DOMAIN list :
            /\ list[i] \in set
            /\ \A j \in 1..(i - 1) : list[j] \notin set
    ELSE 0

\* SELECT path FROM files WHERE package = ? AND kind <> 'dir'
SelectFilePaths(fls, pkgName) ==
    LET rows == SelectSeq(fls, LAMBDA r : r.package = pkgName /\ r.kind # "dir")
    IN  [i \in DOMAIN rows |-> rows[i].path]

\* ORDER BY path DESC
RECURSIVE OrderByPathDesc(_)
OrderByPathDesc(list) ==
    IF list = <<>> THEN <<>>
    ELSE LET m == CHOOSE i \in DOMAIN list :
                     \A j \in DOMAIN list :
                         \/ PathLess(list[j], list[i])
                         \/ (list[j] = list[i] /\ i <= j)
             rest == [k \in 1..(Len(list) - 1) |-> IF k < m THEN list[k] ELSE list[k + 1]]
         IN  <<list[m]>> \o OrderByPathDesc(rest)

\* The SELECT without its ORDER BY: the rows in table order.
SelectDirPaths_Unordered(fls, pkgName) ==
    LET rows == SelectSeq(fls, LAMBDA r : r.package = pkgName /\ r.kind = "dir")
    IN  [i \in DOMAIN rows |-> rows[i].path]

\* SELECT path FROM files WHERE package = ? AND kind = 'dir' ORDER BY path DESC
SelectDirPaths(fls, pkgName) ==
    LET rows == SelectSeq(fls, LAMBDA r : r.package = pkgName /\ r.kind = "dir")
    IN  OrderByPathDesc([i \in DOMAIN rows |-> rows[i].path])

\* RemovePackageFiles deleting each row as soon as its file is removed.
RemovePackageFilesRun_DeletesAsItGoes(pkgs, scr, fls, pkgName, failing) ==
    LET paths == SelectFilePaths(fls, pkgName)
        stop  == FirstIn(paths, {p \in Paths : ~Installer_RemoveFile(p, failing)})
        done  == IF stop # 0 THEN SubSeq(paths, 1, stop - 1) ELSE paths
    IN  IF FindPackage(pkgs, pkgName) = None
        THEN Outcome(pkgs, scr, fls, "closed", "False", TRUE, <<>>)
        ELSE IF stop # 0
        THEN Outcome(pkgs, scr, ExecuteManyDelete(fls, done), "open", "FilesystemError", FALSE,
                     [i \in 1..(2 * stop - 1) |->
                         IF i % 2 = 1 THEN RemoveFileEv(paths[(i + 1) \div 2], i < 2 * stop - 1)
                         ELSE DeleteRowEv(paths[i \div 2])])
        ELSE Outcome(pkgs, scr, ExecuteManyDelete(fls, paths), "closed", "True", FALSE,
                     [i \in 1..(2 * Len(paths)) |->
                         IF i % 2 = 1 THEN RemoveFileEv(paths[(i + 1) \div 2], TRUE)
                         ELSE DeleteRowEv(paths[i \div 2])])

RemovePackageFilesRun(pkgs, scr, fls, pkgName, failing) ==
    LET paths == SelectFilePaths(fls, pkgName)
        stop  == FirstIn(paths, {p \in Paths : ~Installer_RemoveFile(p, failing)})
    IN  IF FindPackage(pkgs, pkgName) = None
        THEN Outcome(pkgs, scr, fls, "closed", "False", TRUE, <<>>)
        ELSE IF stop # 0
        THEN Outcome(pkgs, scr, fls, "open", "FilesystemError", FALSE,
                     [i \in 1..stop |-> RemoveFileEv(paths[i], i < stop)])
        ELSE Outcome(pkgs, scr, ExecuteManyDelete(fls, paths), "closed", "True", FALSE,
                     [i \in DOMAIN paths |-> RemoveFileEv(paths[i], TRUE)]
                     \o [i \in DOMAIN paths |-> DeleteRowEv(paths[i])])

\* RemovePackageDirectories raising on a refusal whatever failDirectoryRemoval is.
RemovePackageDirectoriesRun_AlwaysStrict(pkgs, scr, fls, pkgName, failDirectoryRemoval, failing) ==
    LET paths == SelectDirPaths(fls, pkgName)
        stop  == FirstIn(paths, {p \in Paths : ~Installer_RemoveDirectory(p, failing)})
    IN  IF FindPackage(pkgs, pkgName) = None
        THEN Outcome(pkgs, scr, fls, "closed", "False", TRUE, <<>>)
        ELSE IF stop # 0
        THEN Outcome(pkgs, scr, fls, "open", "FilesystemError", FALSE,
                     [i \in 1..stop |-> RemoveDirectoryEv(paths[i], i < stop)])
        ELSE Outcome(pkgs, scr, ExecuteManyDelete(fls, paths), "closed", "True", FALSE,
                     [i \in DOMAIN paths |-> RemoveDirectoryEv(paths[i], TRUE)]
                     \o [i \in DOMAIN paths |-> DeleteRowEv(paths[i])])

RemovePackageDirectoriesRun(pkgs, scr, fls, pkgName, failDirectoryRemoval, failing) ==
    LET paths == SelectDirPaths(fls, pkgName)
        stop  == IF failDirectoryRemoval
                 THEN FirstIn(paths, {p \in Paths : ~Installer_RemoveDirectory(p, failing)})
                 ELSE 0
    IN  IF FindPackage(pkgs, pkgName) = None
        THEN Outcome(pkgs, scr, fls, "closed", "False", TRUE, <<>>)
        ELSE IF stop # 0
        THEN Outcome(pkgs, scr, fls, "open", "FilesystemError", FALSE,
                     [i \in 1..stop |-> RemoveDirectoryEv(paths[i], i < stop)])
        ELSE Outcome(pkgs, scr, ExecuteManyDelete(fls, paths), "closed", "True", FALSE,
                     [i \in DOMAIN paths |->
                         RemoveDirectoryEv(paths[i], Installer_RemoveDirectory(paths[i], failing))]
                     \o [i \in DOMAIN paths |-> DeleteRowEv(paths[i])])

RemovePackageScriptsRun(pkgs, scr, fls, pkgName) ==
    IF FindPackage(pkgs, pkgName) = None
    THEN Outcome(pkgs, scr, fls, "closed", "False", TRUE, <<>>)
    ELSE Outcome(pkgs, DeleteScripts(scr, pkgName), fls, "closed", "True", FALSE, <<>>)

\* RemovePackageContents going on to the scripts after a failed stage.
RemovePackageContentsRun_GoesOn(pkgs, scr, fls, pkgName, failDirectoryRemoval, failing) ==
    LET s1 == RemovePackageFilesRun(pkgs, scr, fls, pkgName, failing)
        s2 == RemovePackageDirectoriesRun(pkgs, s1.scripts, s1.files, pkgName,
                                          failDirectoryRemoval, failing)
        s3 == RemovePackageScriptsRun(pkgs, s2.scripts, s2.files, pkgName)
    IN  IF FindPackage(pkgs, pkgName) = None
        THEN Outcome(pkgs, scr, fls, "closed", "False", TRUE, <<>>)
        ELSE IF s1.result # "True" THEN s1
        ELSE IF s2.result # "True"
        THEN [s2 EXCEPT !.events = s1.events \o s2.events, !.scripts = s3.scripts]
        ELSE [s3 EXCEPT !.events = s1.events \o s2.events \o s3.events]

RemovePackageContentsRun(pkgs, scr, fls, pkgName, failDirectoryRemoval, failing) ==
    LET s1 == RemovePackageFilesRun(pkgs, scr, fls, pkgName, failing)
        s2 == RemovePackageDirectoriesRun(pkgs, s1.scripts, s1.files, pkgName,
                                          failDirectoryRemoval, failing)
        s3 == RemovePackageScriptsRun(pkgs, s2.scripts, s2.files, pkgName)
    IN  IF FindPackage(pkgs, pkgName) = None
        THEN Outcome(pkgs, scr, fls, "closed", "False", TRUE, <<>>)
        ELSE IF s1.result # "True" THEN s1
        ELSE IF s2.result # "True"
        THEN [s2 EXCEPT !.events = s1.events \o s2.events]
        ELSE [s3 EXCEPT !.events = s1.events \o s2.events \o s3.events]

(***************************************************************************)
(* The methods as steps of the store: method o is called and its run       *)
(* leaves the store behind.                                                *)
(***************************************************************************)
Leaves(run) ==
    LET r == run IN
    /\ packages' = r.packages
    /\ scripts' = r.scripts
    /\ files' = r.files
    /\ conn' = r.conn
    /\ result' = r.result
    /\ warned' = r.warned
    /\ events' = r.events
    /\ UNCHANGED <<disk, stream, package_dir, saved, config>>

AddPackage(pkgName, vers, scriptArg) ==
    /\ op' = "AddPackage"
    /\ Leaves(AddPackageRun(packages, scripts, files, pkgName, vers, scriptArg))

UpdatePackage(pkgName, curVers, newVers, scriptArg) ==
    /\ op' = "UpdatePackage"
    /\ Leaves(UpdatePackageRun(packages, scripts, files, pkgName, curVers, newVers, scriptArg))

RemovePackage(pkgName) ==
    /\ op' = "RemovePackage"
    /\ Leaves(RemovePackageRun(packages, scripts, files, pkgName))

AddFilesBulk(list) ==
    /\ op' = "AddFilesBulk"
    /\ Leaves(AddFilesBulkRun(packages, scripts, files, list))

AddFile(pkgName, path, kind) ==
    /\ op' = "AddFile"
    /\ Leaves(AddFileRun(packages, scripts, files, pkgName, path, kind))

FindFileQuery(path) ==
    /\ op' = "FindFile"
    /\ Leaves(FindFileRun(packages, scripts, files, path))

RemoveFileEntry(path) ==
    /\ op' = "RemoveFileEntry"
    /\ Leaves(RemoveFileEntryRun(packages, scripts, files, path))

RemovePackageFiles(pkgName, failing) ==
    /\ op' = "RemovePackageFiles"
    /\ Leaves(RemovePackageFilesRun(packages, scripts, files, pkgName, failing))

RemovePackageDirectories(pkgName, failDirectoryRemoval, failing) ==
    /\ op' = "RemovePackageDirectories"
    /\ Leaves(RemovePackageDirectoriesRun(packages, scripts, files, pkgName,
                                          failDirectoryRemoval, failing))

RemovePackageScripts(pkgName) ==
    /\ op' = "RemovePackageScripts"
    /\ Leaves(RemovePackageScriptsRun(packages, scripts, files, pkgName))

RemovePackageContents(pkgName, failDirectoryRemoval, failing) ==
    /\ op' = "RemovePackageContents"
    /\ Leaves(RemovePackageContentsRun(packages, scripts, files, pkgName,
                                       failDirectoryRemoval, failing))

(***************************************************************************)
(* Part 2: Configuration.TryGetNetworkFile, the fetch of one file from the *)
(* update servers.  A byte is a number, a file the sequence of its bytes;  *)
(* the file asked for has the bytes 1, 2, ... up to its size, and a read   *)
(* of the response body delivers one byte.                                 *)
(***************************************************************************)
NoFile == [exists |-> FALSE, data |-> <<>>]
FileOf(bytes) == [exists |-> TRUE, data |-> bytes]
NoStream == [open |-> FALSE, data |-> <<>>, pos |-> 0]
StreamAt(bytes, pos) == [open |-> TRUE, data |-> bytes, pos |-> pos]

Body(size) == [i \in 1..size |-> i]

\* What answers at a url.  A server that has the file may honour a Range
\* header or ignore it, may send Content-Length or not, and may break the
\* connection at the read numbered dropsAt of the body (0: at none).
FailingServers ==
    {[kind |-> k, honours |-> FALSE, sendsLength |-> FALSE, dropsAt |-> 0]
        : k \in {"down", "missing", "broken", "timeout"}}
FileServers ==
    [kind : {"file"}, honours : BOOLEAN, sendsLength : BOOLEAN, dropsAt : 0..MaxBody]
Servers == FailingServers \cup FileServers

\* requests.get(url, headers = {..., "Range": "bytes=%d-" % read}) and
\* furl.raise_for_status(): the status and the body that come back.
Respond(server, size, ranged, from) ==
    CASE server.kind = "down"    -> [status |-> "ConnectionError", body |-> <<>>]
      [] server.kind = "timeout" -> [status |-> "OtherError", body |-> <<>>]
      [] server.kind = "missing" -> [status |-> "404", body |-> <<>>]
      [] server.kind = "broken"  -> [status |-> "500", body |-> <<>>]
      [] server.kind = "file"    ->
            IF ranged /\ server.honours
            THEN IF from >= size
                 THEN [status |-> "416", body |-> <<>>]
                 ELSE [status |-> "206", body |-> SubSeq(Body(size), from + 1, size)]
            ELSE [status |-> "200", body |-> Body(size)]

\* bool(furl): a requests.Response is true when its status is below 400.
Answered(status) == status \in {"200", "206"}

\* The exception with the 404 told apart from no other failure.
UrlExc_Generic(status) ==
    CASE status = "404"             -> "ConnectionError"
      [] status = "500"             -> "requests.HTTPError"
      [] status = "ConnectionError" -> "ConnectionError"
      [] status = "OtherError"      -> "OtherError"

\* The exception the except clauses of l.676-696 leave in url_exc: the
\* UpdateNetworkServerException built at l.689 is overwritten at l.690 by the
\* requests.exceptions.HTTPError that was caught.
UrlExc(status) ==
    CASE status = "404"             -> "NotFound"
      [] status = "500"             -> "requests.HTTPError"
      [] status = "ConnectionError" -> "ConnectionError"
      [] status = "OtherError"      -> "OtherError"

\* CheckFreeSpace(path, required): False when the required blocks exceed
\* the free ones.
CheckFreeSpace(required) == ~(required > FreeBytes)

GetEv(i, ranged, from, status) ==
    [ev |-> "Get", src |-> i, ranged |-> ranged, from |-> from, status |-> status]
CheckFreeSpaceEv(required, ok) == [ev |-> "CheckFreeSpace", required |-> required, ok |-> ok]
WriteEv(byte) == [ev |-> "Write", data |-> byte]
UnlinkEv == [ev |-> "Unlink"]

\* What a call of TryGetNetworkFile leaves behind.
Fetched(dsk, strm, res, w, evs) ==
    [disk |-> dsk, stream |-> strm, result |-> res, warned |-> w, events |-> evs]

\* The open that always creates the file anew.
Resumes_Never(dsk, pathname, intr_ok) == FALSE

\* l.633-640: open(pathname, "r+b") is tried, and succeeds, when a pathname
\* is given, intr_ok is set and the file exists; else the file is opened "w+b".
Resumes(dsk, pathname, intr_ok) == pathname /\ intr_ok /\ dsk.exists

\* The loop asking every url whatever the answers.
LastAsked_All(file_url, size, ranged, from) == Len(file_url)

\* l.650-699: the loop over file_url ends at the first url that answers with
\* the file (break, l.698-699) or with 416 (return, l.682), or with the list.
LastAsked(file_url, size, ranged, from) ==
    LET stops == {i \in DOMAIN file_url :
                     Respond(file_url[i], size, ranged, from).status
                        \in {"200", "206", "416"}}
    IN  IF stops = {} THEN Len(file_url)
        ELSE CHOOSE i \in stops : \A j \in stops : i <= j

\* The check of the space made whatever ignore_space is.
Consults_Whatever(sendsLength, totalsize, pathname, ignore_space) ==
    sendsLength /\ totalsize # 0 /\ pathname

\* l.719-724: totalsize is None without a Content-Length; a totalsize of 0
\* is false as None is.
Consults(sendsLength, totalsize, pathname, ignore_space) ==
    sendsLength /\ totalsize # 0 /\ pathname /\ ~ignore_space

\* The partial file left behind whatever intr_ok is.
Unlinks_Never(pathname, intr_ok) == FALSE

\* l.765-766
Unlinks(pathname, intr_ok) == ~intr_ok /\ pathname

\* TryGetNetworkFile(pathname = ..., intr_ok = ..., ignore_space = ...) for a
\* file of the given size, file_url being what answers at each of its urls.
\* pathname tells whether a pathname is given.
TryGetNetworkFileRun(dsk, pathname, intr_ok, ignore_space, file_url, size) ==
    LET resumes == Resumes(dsk, pathname, intr_ok)
        read    == IF resumes THEN Len(dsk.data) ELSE 0
        held    == IF resumes THEN dsk.data ELSE <<>>
        opened  == IF pathname THEN FileOf(held) ELSE dsk
        last    == LastAsked(file_url, size, intr_ok, read)
        gets    == [i \in 1..last |->
                      GetEv(i, intr_ok, read, Respond(file_url[i], size, intr_ok, read).status)]
        furl    == file_url[last]
        status  == Respond(furl, size, intr_ok, read).status
        body    == Respond(furl, size, intr_ok, read).body
        logged  == \E i \in 1..last : ~Answered(gets[i].status) /\ gets[i].status # "416"
        totalsize    == read + Len(body)
        consults     == Consults(furl.sendsLength, totalsize, pathname, ignore_space)
        space_needed == totalsize - read
        check   == IF consults
                   THEN <<CheckFreeSpaceEv(space_needed, CheckFreeSpace(space_needed))>>
                   ELSE <<>>
        drops   == furl.dropsAt # 0 /\ furl.dropsAt <= Len(body) + 1
        written == IF drops THEN SubSeq(body, 1, furl.dropsAt - 1) ELSE body
        writes  == [i \in DOMAIN written |-> WriteEv(written[i])]
    IN  IF status = "416"
        THEN Fetched(opened, StreamAt(held, 0), "Stream", logged, gets)
        ELSE IF ~Answered(status)
        THEN Fetched(opened, NoStream, UrlExc(status), TRUE, gets)
        ELSE IF consults /\ ~CheckFreeSpace(space_needed)
        THEN Fetched(opened, NoStream, "InsufficientSpace", logged, gets \o check)
        ELSE IF drops /\ Unlinks(pathname, intr_ok)
        THEN Fetched(NoFile, NoStream, "ReadError", logged,
                     gets \o check \o writes \o <<UnlinkEv>>)
        ELSE IF drops
        THEN Fetched(IF pathname THEN FileOf(held \o written) ELSE dsk,
                     NoStream, "ReadError", logged, gets \o check \o writes)
        ELSE Fetched(IF pathname THEN FileOf(held \o body) ELSE dsk,
                     StreamAt(held \o body, 0), "Stream", logged,
                     gets \o check \o writes)

\* The call as a step; the file at the pathname holds MaxBody bytes at most.
TryGetNetworkFile(pathname, intr_ok, ignore_space, file_url, size) ==
    /\ op' = "TryGetNetworkFile"
    /\ \E r \in {TryGetNetworkFileRun(disk, pathname, intr_ok, ignore_space, file_url, size)} :
          /\ Len(r.disk.data) <= MaxBody
          /\ disk' = r.disk
          /\ stream' = r.stream
          /\ result' = r.result
          /\ warned' = r.warned
          /\ events' = r.events
    /\ UNCHANGED <<packages, scripts, files, conn, package_dir, saved, config>>

\* The chunk loop of TryGetNetworkFile (l.731-762) with the handler and the
\* sizes of the chunks told apart.  chunks are the lengths of what
\* furl.raw.read(chunk_size) returns, one after the other, up to the empty
\* read that ends the loop; totalsize is 0 where the code has None or 0
\* (both are false at l.751).
\*
\* l.752: int((float(read) / float(totalsize)) * 100.0).  The quotient and
\* the product are rounded, so where read * 100 / totalsize is a whole
\* number the product may fall just short of it and int() give one less
\* (29 of 100 gives 28); short are the whole numbers where it does.  Read
\* equal to totalsize gives 100.
Percent(read, totalsize, short) ==
    LET exact == (read * 100) \div totalsize
    IN  IF (read * 100) % totalsize = 0 /\ exact \in short /\ read < totalsize
        THEN exact - 1
        ELSE exact

\* The handler called at every chunk.
Reports_Always(percent, lastpercent) == TRUE

\* l.753: if percent != lastpercent
Reports(percent, lastpercent) == percent # lastpercent

ChunkEv(read) == [ev |-> "Chunk", read |-> read]
HandlerEv(totalsize, percent) == [ev |-> "Handler", size |-> totalsize, progress |-> percent]

\* l.736-762: the turns of the loop that are left, read and lastpercent
\* being as the turns before have left them.
RECURSIVE Chunks(_, _, _, _, _, _)
Chunks(handler, totalsize, short, chunks, read, lastpercent) ==
    IF chunks = <<>> THEN <<>>
    ELSE LET now     == read + Head(chunks)
             calls   == handler /\ totalsize # 0
             percent == IF calls THEN Percent(now, totalsize, short) ELSE lastpercent
         IN  <<ChunkEv(now)>>
             \o (IF calls /\ Reports(percent, lastpercent)
                 THEN <<HandlerEv(totalsize, percent)>>
                 ELSE <<>>)
             \o Chunks(handler, totalsize, short, Tail(chunks), now, percent)

RECURSIVE Sum(_)
Sum(chunks) == IF chunks = <<>> THEN 0 ELSE Head(chunks) + Sum(Tail(chunks))

\* l.719-722 and l.731-762: the body of a response read to its end, the
\* file holding read bytes before; with a Content-Length the server sends
\* the length of the body.
StreamBodyRun(handler, sendsLength, short, read, chunks) ==
    Chunks(handler, IF sendsLength THEN read + Sum(chunks) ELSE 0, short, chunks, read, 0)

\* The loop as a step.  Only the lengths of the chunks are told apart here:
\* the bytes written are those of TryGetNetworkFile above.
StreamBody(handler, sendsLength, short, read, chunks) ==
    /\ op' = "StreamBody"
    /\ result' = "Stream"
    /\ warned' = FALSE
    /\ events' = StreamBodyRun(handler, sendsLength, short, read, chunks)
    /\ UNCHANGED <<packages, scripts, files, conn, disk, stream, package_dir, saved, config>>

(***************************************************************************)
(* Part 3: Configuration.FindPackageFile, the search for the file of a     *)
(* package in the package directory and on the update servers.             *)
(*                                                                         *)
(* A package descriptor (class Package, another module) is the record of   *)
(* its name, its version, its checksum (None without one) and its updates: *)
(* the versions from which a delta leads to it, each with the checksum of  *)
(* the delta file (None without one).                                      *)
(***************************************************************************)
PkgFileDeltaOnly == "PkgFileDeltaOnly"
PkgFileFullOnly == "PkgFileFullOnly"
PkgTypes == {None, PkgFileDeltaOnly, PkgFileFullOnly}

\* A checksum is None or a digest; hashlib.sha256(...).hexdigest() tells the
\* contents apart.
NoChecksum == [isNone |-> TRUE, sha256 |-> <<>>]
Sha256(bytes) == [isNone |-> FALSE, sha256 |-> bytes]

\* ChecksumFile(fobj), l.108-119: the digest of the whole file, whatever the
\* position it is read at.
ChecksumFile(bytes) == Sha256(bytes)

\* package.FileName() and package.FileName(old_version)
FileName(package, old_version) ==
    [name |-> package.name, version |-> package.version, from |-> old_version]

\* package.Update(curVers): whether there is an update from that version,
\* and that update.
HasUpdate(package, curVers) == \E u \in package.updates : u.version = curVers
Update(package, curVers) == CHOOSE u \in package.updates : u.version = curVers

\* A directory is the set of the files in it, each the record of its name and
\* its bytes.
FileAt(dir, filename) ==
    IF \E f \in dir : f.name = filename
    THEN FileOf((CHOOSE f \in dir : f.name = filename).data)
    ELSE NoFile
PutFile(dir, filename, file) ==
    {f \in dir : f.name # filename}
        \cup (IF file.exists THEN {[name |-> filename, data |-> file.data]} ELSE {})

\* The directories: the one that the fetches save to, and another that the
\* program only reads and whose files are given with the call.
SaveDir == "/save"
CacheDir == "/cache"
Holds(dir_name, svd, cache) == IF dir_name = SaveDir THEN svd ELSE cache

\* l.1169-1170
FullCandidate(package) ==
    [Filename |-> FileName(package, None), Checksum |-> package.checksum, Delta |-> FALSE]

\* l.1185-1192
DeltaCandidate(package, curVers) ==
    [Filename |-> FileName(package, curVers),
     Checksum |-> Update(package, curVers).checksum, Delta |-> TRUE]

\* The delta looked for whatever version is installed.
HasDelta_AnyVersion(pkgs, package) ==
    LET curVers == FindPackage(pkgs, package.name)
    IN  curVers # None /\ HasUpdate(package, curVers)

\* l.1176-1184: the version that the store holds of the package is another
\* one than the descriptor's and the descriptor has an update from it.
HasDelta(pkgs, package) ==
    LET curVers == FindPackage(pkgs, package.name)
    IN  curVers # None /\ curVers # package.version /\ HasUpdate(package, curVers)

\* l.1168-1198: package_files
PackageFiles(pkgs, package, pkg_type) ==
    (IF pkg_type # PkgFileDeltaOnly THEN <<FullCandidate(package)>> ELSE <<>>)
    \o (IF pkg_type # PkgFileFullOnly /\ HasDelta(pkgs, package)
        THEN <<DeltaCandidate(package, FindPackage(pkgs, package.name))>>
        ELSE <<>>)

\* reversed(package_files)
RECURSIVE Reversed(_)
Reversed(list) ==
    IF list = <<>> THEN <<>> ELSE Reversed(Tail(list)) \o <<Head(list)>>

\* The network searched in the order of the list.
NetworkOrder_AsListed(package_files) == package_files

\* l.1233
NetworkOrder(package_files) == Reversed(package_files)

\* A file taken whatever its digest.
Verified_Unchecked(attempt, bytes) == TRUE

\* l.1221-1229 and l.1255-1268: the file is taken when the candidate has no
\* checksum or the digest of the file is that checksum.
Verified(attempt, bytes) ==
    attempt.Checksum.isNone \/ ChecksumFile(bytes) = attempt.Checksum

\* A failed fetch that ends the search.
Absorbed_Never(fetch_result) == FALSE

\* l.1250-1252: except BaseException ... continue
Absorbed(fetch_result) == fetch_result # "Stream"

LocalEv(attempt, found, ok) ==
    [ev |-> "Local", Filename |-> attempt.Filename, found |-> found, ok |-> ok]
FetchEv(attempt, fetch_result) ==
    [ev |-> "Fetch", Filename |-> attempt.Filename, result |-> fetch_result]
VerifyEv(attempt, ok) == [ev |-> "Verify", Filename |-> attempt.Filename, ok |-> ok]
UnlinkSavedEv(attempt) == [ev |-> "UnlinkSaved", Filename |-> attempt.Filename]

\* What a search leaves behind: the directory saved to, the file returned,
\* the result, whether a checksum was found wrong, and what was done.
Searched(svd, strm, res, w, mismatch, evs) ==
    [saved |-> svd, stream |-> strm, result |-> res, warned |-> w,
     pkg_exception |-> mismatch, events |-> evs]

\* l.1212-1231: the candidates looked for in the package directory, local
\* being the files it holds.
RECURSIVE SearchLocal(_, _, _, _)
SearchLocal(pkg_dir, local, attempts, sofar) ==
    IF attempts = <<>> \/ pkg_dir = None THEN sofar
    ELSE LET attempt == Head(attempts)
             file    == FileAt(local, attempt.Filename)
         IN  IF ~file.exists
             THEN SearchLocal(pkg_dir, local, Tail(attempts),
                     [sofar EXCEPT !.events = @ \o <<LocalEv(attempt, FALSE, FALSE)>>])
             ELSE IF Verified(attempt, file.data)
             THEN [sofar EXCEPT !.stream = StreamAt(file.data, 0),
                                !.result = "Stream",
                                !.events = @ \o <<LocalEv(attempt, TRUE, TRUE)>>]
             ELSE SearchLocal(pkg_dir, local, Tail(attempts),
                     [sofar EXCEPT !.pkg_exception = TRUE,
                                   !.events = @ \o <<LocalEv(attempt, TRUE, FALSE)>>])

\* l.1233-1268: the candidates fetched from the update server; net gives
\* what answers at the urls of the full file and of the delta file, size
\* the size of either file, save_dir whether a directory to save to is given.
RECURSIVE SearchNetwork(_, _, _, _, _, _)

\* The file saved left where it is.
Unlinked_Left(save_dir, dir, filename) == dir

\* l.1263-1264: if save_name: os.unlink(save_name)
Unlinked(save_dir, dir, filename) ==
    IF save_dir THEN PutFile(dir, filename, NoFile) ELSE dir

\* l.1250-1268: one candidate after TryGetNetworkFile has ended as fetch;
\* rest are the candidates still to try.
Attempted(attempt, fetch, rest, save_dir, ignore_space, net, size, sofar) ==
    LET kept    == IF save_dir
                   THEN PutFile(sofar.saved, attempt.Filename, fetch.disk)
                   ELSE sofar.saved
        after   == [sofar EXCEPT !.saved = kept,
                                 !.warned = @ \/ fetch.warned,
                                 !.events = @ \o <<FetchEv(attempt, fetch.result)>>
                                              \o fetch.events]
    IN  IF fetch.result # "Stream"
        THEN IF Absorbed(fetch.result)
             THEN SearchNetwork(rest, save_dir, ignore_space, net, size, after)
             ELSE [after EXCEPT !.result = fetch.result]
        ELSE IF Verified(attempt, fetch.stream.data)
        THEN [after EXCEPT !.stream = fetch.stream,
                           !.result = "Stream",
                           !.events = @ \o <<VerifyEv(attempt, TRUE)>>]
        ELSE SearchNetwork(rest, save_dir, ignore_space, net, size,
                [after EXCEPT
                    !.saved = Unlinked(save_dir, kept, attempt.Filename),
                    !.pkg_exception = TRUE,
                    !.events = @ \o <<VerifyEv(attempt, FALSE)>>
                                 \o (IF save_dir THEN <<UnlinkSavedEv(attempt)>>
                                     ELSE <<>>)])

\* l.1240-1249: TryGetNetworkFile(intr_ok = True) for the next candidate.
SearchNetwork(attempts, save_dir, ignore_space, net, size, sofar) ==
    IF attempts = <<>> THEN sofar
    ELSE Attempted(Head(attempts),
                   TryGetNetworkFileRun(
                       IF save_dir THEN FileAt(sofar.saved, Head(attempts).Filename)
                       ELSE NoFile,
                       save_dir, TRUE, ignore_space,
                       IF Head(attempts).Delta THEN net.delta ELSE net.full, size),
                   Tail(attempts), save_dir, ignore_space, net, size, sofar)

\* l.1270-1274: after the two loops.  With no candidate at all neither loop
\* has assigned the local variable file, and reading it at l.1270 raises
\* UnboundLocalError.
Exhausted(package_files, pkg_exception) ==
    IF package_files = <<>> THEN "UnboundLocalError"
    ELSE IF pkg_exception THEN "ChecksumFailException"
    ELSE "UpdatePackageNotFound"

\* l.1200-1274: the two loops over the candidates package_files and the
\* raise after them; local are the files of the package directory.
Ended(package_files, remote) ==
    IF remote.result # None THEN remote
    ELSE [remote EXCEPT !.result = Exhausted(package_files, remote.pkg_exception)]

Continued(package_files, local, save_dir, ignore_space, net, size) ==
    IF local.result = "Stream" THEN local
    ELSE Ended(package_files,
               SearchNetwork(NetworkOrder(package_files), save_dir, ignore_space,
                             net, size, local))

Resolved(package_files, pkg_dir, local, save_dir, ignore_space, net, size, start) ==
    Continued(package_files, SearchLocal(pkg_dir, local, package_files, start),
              save_dir, ignore_space, net, size)

\* FindPackageFile(package, save_dir = ..., pkg_type = ..., ignore_space =
\* ...), cache being the files of the directory that is only read.
FindPackageFileRun(pkgs, pkg_dir, svd, cache, package, pkg_type, save_dir, ignore_space, net, size) ==
    Resolved(PackageFiles(pkgs, package, pkg_type), pkg_dir, Holds(pkg_dir, svd, cache),
             save_dir, ignore_space, net, size,
             Searched(svd, NoStream, None, FALSE, FALSE, <<>>))

\* l.940-942
SetPackageDir(loc) ==
    /\ op' = "SetPackageDir"
    /\ package_dir' = loc
    /\ result' = None
    /\ warned' = FALSE
    /\ events' = <<>>
    /\ UNCHANGED <<packages, scripts, files, conn, disk, stream, saved, config>>

\* The call as a step; a file saved holds MaxBody bytes at most.
FindPackageFile(cache, package, pkg_type, save_dir, ignore_space, net, size) ==
    /\ op' = "FindPackageFile"
    /\ \E r \in {FindPackageFileRun(packages, package_dir, saved, cache, package, pkg_type,
                                    save_dir, ignore_space, net, size)} :
          /\ \A f \in r.saved : Len(f.data) <= MaxBody
          /\ saved' = r.saved
          /\ stream' = r.stream
          /\ result' = r.result
          /\ warned' = r.warned
          /\ events' = r.events
    /\ UNCHANGED <<packages, scripts, files, conn, disk, package_dir, config>>

(***************************************************************************)
(* Part 4: do_verify, the audit of the live filesystem against the rows of *)
(* table files.  The live filesystem gives, for a path, what lstat finds   *)
(* there (nothing, a regular file, a directory or a symbolic link, with    *)
(* its permission bits and its owner), the bytes of the file or of the     *)
(* link target, and for a link what it leads to and the bytes read through *)
(* it.                                                                     *)
(***************************************************************************)
\* The checksum "-" of a row: a string that is the digest of no contents (no
\* byte is negative).
Dash == [isNone |-> FALSE, sha256 |-> <<0 - 1>>]

\* AddFile(pkgName, path, type, checksum, uid, gid, flags, mode) with the
\* columns given.
AddFileRowRun_Insert(pkgs, scr, fls, row) ==
    Outcome(pkgs, scr, InsertFile(fls, row), "closed", None, FALSE, <<>>)

AddFileRowRun(pkgs, scr, fls, row) ==
    IF FindFile(fls, row.path)
    THEN Outcome(pkgs, scr, UpdateFile(fls, row), "closed", None, FALSE,
                 <<ReplaceRowEv(row.path)>>)
    ELSE Outcome(pkgs, scr, InsertFile(fls, row), "closed", None, FALSE, <<>>)

AddFileRow(row) ==
    /\ op' = "AddFile"
    /\ Leaves(AddFileRowRun(packages, scripts, files, row))

\* VERIFY_SKIP_PATHS (l.29-40), its first entries.
VERIFY_SKIP_PATHS ==
    { <<"/", "v", "a", "r", "/">>, <<"/", "e", "t", "c">>, <<"/", "d", "e", "v">> }

\* path[:tlen] == i
StartsWith(path, prefix) ==
    Len(path) >= Len(prefix) /\ SubSeq(path, 1, Len(prefix)) = prefix

\* path.endswith(suffix)
EndsWith(path, suffix) ==
    Len(path) >= Len(suffix)
    /\ SubSeq(path, Len(path) - Len(suffix) + 1, Len(path)) = suffix

\* l.1283-1288
is_ignore_path(path) == \E i \in VERIFY_SKIP_PATHS : StartsWith(path, i)

Pyc == <<".", "p", "y", "c">>

\* os.path.exists(path), which follows a link.
Lexists_Follows(entry) ==
    entry.ftype # "absent" /\ ~(entry.ftype = "slink" /\ entry.leads = "nowhere")

\* os.path.lexists(path)
Lexists(entry) == entry.ftype # "absent"

\* The mismatches of every path dropped.
Suppressed_Always(path) == TRUE

\* l.1341: the mismatches of a path that ends with ".pyc" are dropped.
Suppressed(path) == EndsWith(path, Pyc)

\* open(path, "rb"): the open follows a link; of a directory, and of a link
\* that leads nowhere, it fails.
OpenError(entry) ==
    CASE entry.ftype = "file" -> None
      [] entry.ftype = "dir" -> "IsADirectoryError"
      [] entry.ftype = "slink" /\ entry.leads = "file" -> None
      [] entry.ftype = "slink" /\ entry.leads = "dir" -> "IsADirectoryError"
      [] OTHER -> "FileNotFoundError"

\* f.read()
ReadThrough(entry) == IF entry.ftype = "slink" THEN entry.linked ELSE entry.data

\* l.1403-1404: a leading "/" (byte 47) is taken off the link target.
StripSlash(tmp) == IF tmp # <<>> /\ Head(tmp) = 47 THEN Tail(tmp) ELSE tmp

NotFoundEntry(path) == [ev |-> "notfound", path |-> path]
WrongTypeEntry(path) == [ev |-> "wrongtype", path |-> path]
\* A checksum that differs reported as a warning.
ChecksumEntry_AsWarning(path) == [ev |-> "warning", path |-> path]
ChecksumEntry(path) == [ev |-> "checksum", path |-> path]
WarnEntry(path) == [ev |-> "warning", path |-> path]
ReturnEv(error_flag, warn_flag) ==
    [ev |-> "return", path |-> <<>>, error_flag |-> error_flag, warn_flag |-> warn_flag]

\* check_ftype(objs), l.1315-1347: the wrongtype entry and the warning, as
\* the list of those there are.
check_ftype(objs, entry) ==
    (IF entry.ftype # objs.kind THEN <<WrongTypeEntry(objs.path)>> ELSE <<>>)
    \o (IF /\ \/ entry.mode # objs.mode
              \/ entry.uid # objs.uid
              \/ entry.gid # objs.gid
           /\ ~Suppressed(objs.path)
        THEN <<WarnEntry(objs.path)>>
        ELSE <<>>)

\* What one turn of the loop leaves: the error it raises (None when it
\* raises none), the entries it appends, and whether it sets error_flag and
\* warn_flag.
Turn(raises, entries, error_flag, warn_flag) ==
    [raises |-> raises, entries |-> entries,
     error_flag |-> error_flag, warn_flag |-> warn_flag]

\* A path not found that leaves error_flag as it is.
NotFound_Unflagged(path) == Turn(None, <<NotFoundEntry(path)>>, FALSE, FALSE)

\* l.1385-1391
NotFound(path) == Turn(None, <<NotFoundEntry(path)>>, TRUE, FALSE)

\* l.1372-1424: one turn of the loop.
VerifyRow(objs, entry) ==
    IF is_ignore_path(objs.path) THEN Turn(None, <<>>, FALSE, FALSE)
    ELSE IF ~Lexists(entry) THEN NotFound(objs.path)
    ELSE LET typed == check_ftype(objs, entry)
             ed    == \E i \in DOMAIN typed : typed[i].ev = "wrongtype"
             pd    == \E i \in DOMAIN typed : typed[i].ev = "warning"
             tmp   == IF objs.kind = "slink" THEN StripSlash(entry.data)
                      ELSE IF objs.kind = "file" THEN ReadThrough(entry)
                      ELSE <<>>
         IN  IF objs.kind = "slink" /\ entry.ftype # "slink"
             THEN Turn("OSError", typed, ed, pd)
             ELSE IF objs.kind = "file" /\ EndsWith(objs.path, Pyc)
             THEN Turn(None, typed, ed, pd)
             ELSE IF objs.kind = "file" /\ OpenError(entry) # None
             THEN Turn(OpenError(entry), typed, ed, pd)
             ELSE IF /\ objs.kind # "dir"
                     /\ ~objs.checksum.isNone
                     /\ objs.checksum # Dash
                     /\ Sha256(tmp) # objs.checksum
             THEN Turn(None, typed \o <<ChecksumEntry(objs.path)>>, TRUE, pd)
             ELSE Turn(None, typed, ed, pd)

\* The loop over filelist; live gives the live filesystem at every path,
\* sofar the lists and the flags as the turns before have left them.
RECURSIVE VerifyRows(_, _, _)
VerifyRows(filelist, live, sofar) ==
    IF filelist = <<>> THEN sofar
    ELSE LET row  == VerifyRow(Head(filelist), live[Head(filelist).path])
             next == Turn(row.raises, sofar.entries \o row.entries,
                          sofar.error_flag \/ row.error_flag,
                          sofar.warn_flag \/ row.warn_flag)
         IN  IF row.raises # None THEN next
             ELSE VerifyRows(Tail(filelist), live, next)

\* do_verify(): the result is Returned, with the two flags at the end of
\* the entries, or the error raised.
do_verifyRun(fls, live) ==
    LET rows == VerifyRows(fls, live, Turn(None, <<>>, FALSE, FALSE))
    IN  IF rows.raises # None
        THEN [result |-> rows.raises, events |-> rows.entries]
        ELSE [result |-> "Returned",
              events |-> rows.entries \o <<ReturnEv(rows.error_flag, rows.warn_flag)>>]

do_verify(live) ==
    /\ op' = "do_verify"
    /\ \E r \in {do_verifyRun(files, live)} :
          /\ result' = r.result
          /\ events' = r.events
    /\ warned' = FALSE
    /\ UNCHANGED <<packages, scripts, files, conn, disk, stream, package_dir, saved, config>>

(***************************************************************************)
(* Part 5: the update servers of class Configuration.  _update_servers is  *)
(* the set of its entries, each the key with the name and the url of the   *)
(* server under it (master and signing change nothing that is told apart   *)
(* here).  The file at _config_path is the time it was written and the     *)
(* sequence of its sections: section Defaults with its option              *)
(* update_server (None without it), every other section with its options   *)
(* name, url and signing (None without them).                              *)
(***************************************************************************)
CONFIG_DEFAULT == "Defaults"
\* imported at l.19; the address itself is not in this file
UPDATE_SERVER == "update.example"

\* l.503-506
default_update_server == [name |-> "default", url |-> UPDATE_SERVER]

ServerNameList == <<"default", "mirror", "test">>
ServerNames == {ServerNameList[i] : i \in DOMAIN ServerNameList}
ServerUrls == {UPDATE_SERVER, "mirror.example"}
\* UpdateServer(name, url), l.441-451
UpdateServer(name, url) == [name |-> name, url |-> url]
UpdateServers == {UpdateServer(n, u) : n \in ServerNames, u \in ServerUrls}

Entry(key, server) == [key |-> key, name |-> server.name, url |-> server.url]
Keys(servers) == {e.key : e \in servers}

\* self._update_servers[key] = server
PutServer(servers, key, server) ==
    {e \in servers : e.key # key} \cup {Entry(key, server)}

MaxMtime == 1
Mtimes == 0..MaxMtime
\* _upd_conf_mtime before its first assignment (the attribute is not there)
NoMtime == 0 - 1

NoConf == [exists |-> FALSE, mtime |-> 0, sections |-> <<>>]
ConfFile(mtime, sections) == [exists |-> TRUE, mtime |-> mtime, sections |-> sections]
DefaultsSection(server) ==
    [section |-> CONFIG_DEFAULT, server |-> server, name |-> None, url |-> None,
     signing |-> None]
ServerSection(section, name, url, signing) ==
    [section |-> section, server |-> None, name |-> name, url |-> url, signing |-> signing]

\* What a method of Configuration leaves behind: the object and None, or
\* the exception it raises.
Configures(cfg, res) == [config |-> cfg, result |-> res]

\* cfp.getboolean, l.926: the values ConfigParser takes for a boolean
Booleans == {"True", "False", "yes", "no", "1", "0"}

\* l.915-933: the loop over cfp.sections().  getboolean raises ValueError
\* for a signing that is no boolean; nothing catches it.
RECURSIVE Sections(_, _)
Sections(sections, cfg) ==
    IF sections = <<>> THEN Configures(cfg, None)
    ELSE LET section == Head(sections)
         IN  IF section.section = CONFIG_DEFAULT
             THEN Sections(Tail(sections),
                           IF section.server # None
                           THEN [cfg EXCEPT !.update_server_name = section.server]
                           ELSE cfg)
             ELSE IF section.name = None \/ section.url = None
             THEN Sections(Tail(sections), cfg)
             ELSE IF section.signing # None /\ section.signing \notin Booleans
             THEN Configures(cfg, "ValueError")
             ELSE Sections(Tail(sections),
                           [cfg EXCEPT !.update_servers =
                               PutServer(@, section.section,
                                         UpdateServer(section.name, section.url))])

\* l.934-937
Selected(cfg) ==
    IF cfg.update_server_name \notin Keys(cfg.update_servers)
    THEN [cfg EXCEPT !.update_server_name = default_update_server.name]
    ELSE cfg

\* l.913-938 for the sections of the file
Parsed(parsed) ==
    IF parsed.result # None THEN parsed ELSE Configures(Selected(parsed.config), None)

\* LoadUpdateConfigurationFile(path), l.889-938
LoadUpdateConfigurationFileRun(cfg) ==
    IF ~cfg.file.exists
    THEN Configures([cfg EXCEPT !.update_server_name = default_update_server.name], None)
    ELSE IF cfg.upd_conf_mtime # NoMtime /\ cfg.file.mtime <= cfg.upd_conf_mtime
    THEN Configures(cfg, None)
    ELSE Parsed(Sections(cfg.file.sections,
                         IF cfg.upd_conf_mtime = NoMtime
                         THEN [cfg EXCEPT !.upd_conf_mtime = cfg.file.mtime]
                         ELSE cfg))

\* Configuration.__init__, l.518-525, found being the file at _config_path
Configured(found) ==
    LoadUpdateConfigurationFileRun(
        [update_servers |-> {Entry(default_update_server.name, default_update_server)},
         update_server_name |-> default_update_server.name,
         upd_conf_mtime |-> NoMtime,
         file |-> found]).config

\* l.866-874: a section for every key but the default one, its options
\* from UpdateServer.__dict__ (str of a signing is a boolean for getboolean)
RECURSIVE ServerSections(_, _)
ServerSections(servers, i) ==
    IF i > Len(ServerNameList) THEN <<>>
    ELSE (IF ServerNameList[i] # default_update_server.name
          THEN [j \in 1..Cardinality({e \in servers : e.key = ServerNameList[i]}) |->
                   LET e == CHOOSE e \in servers : e.key = ServerNameList[i]
                   IN  ServerSection(e.key, e.name, e.url, "True")]
          ELSE <<>>)
         \o ServerSections(servers, i + 1)

\* StoreUpdateConfigurationFile(path), l.857-879, at the time now
StoreUpdateConfigurationFileRun(cfg, now) ==
    [cfg EXCEPT !.file =
        ConfFile(now,
                 (IF cfg.update_server_name # default_update_server.name
                  THEN <<DefaultsSection(cfg.update_server_name)>>
                  ELSE <<>>)
                 \o ServerSections(cfg.update_servers, 1))]

\* if save: self.StoreUpdateConfigurationFile(self._config_path)
Stored(cfg, save, now) == IF save THEN StoreUpdateConfigurationFileRun(cfg, now) ELSE cfg

\* l.550-555
SetUpdateServerRun(cfg, name, save, now) ==
    IF name \notin Keys(cfg.update_servers) THEN Configures(cfg, "LookupError")
    ELSE Configures(Stored([cfg EXCEPT !.update_server_name = name], save, now), None)

\* l.557-564
AddUpdateServerRun(cfg, server, save, now) ==
    IF server.name = default_update_server.name THEN Configures(cfg, None)
    ELSE Configures(Stored([cfg EXCEPT !.update_servers = PutServer(@, server.name, server)],
                           save, now), None)

\* l.566-578
RemoveUpdateServerRun(cfg, name, save, now) ==
    IF name = default_update_server.name THEN Configures(cfg, None)
    ELSE IF name \notin Keys(cfg.update_servers) THEN Configures(cfg, "LookupError")
    ELSE Configures(
            Stored([cfg EXCEPT
                       !.update_servers = {e \in @ : e.key # name},
                       !.update_server_name =
                           IF @ = name THEN default_update_server.name ELSE @],
                   save, now), None)

\* A method of Configuration as a step.
Configure(o, run) ==
    /\ op' = o
    /\ \E r \in {run} :
          /\ config' = r.config
          /\ result' = r.result
    /\ warned' = FALSE
    /\ events' = <<>>
    /\ UNCHANGED <<packages, scripts, files, conn, disk, stream, package_dir, saved>>

SetUpdateServer(name, save, now) ==
    Configure("SetUpdateServer", SetUpdateServerRun(config, name, save, now))

AddUpdateServer(server, save, now) ==
    Configure("AddUpdateServer", AddUpdateServerRun(config, server, save, now))

RemoveUpdateServer(name, save, now) ==
    Configure("RemoveUpdateServer", RemoveUpdateServerRun(config, name, save, now))

\* UpdateCache(), l.881-887
UpdateCache ==
    Configure("UpdateCache", LoadUpdateConfigurationFileRun(config))

\* The file at _config_path written or removed from outside the program.
WriteConf(found) ==
    Configure("WriteConf", Configures([config EXCEPT !.file = found], None))

(***************************************************************************)
(* The store after PackageDB.__init__: three empty tables, no connection.  *)
(***************************************************************************)
Init ==
    /\ packages = {}
    /\ scripts = <<>>
    /\ files = <<>>
    /\ conn = "closed"
    /\ op = "__init__"
    /\ result = None
    /\ warned = FALSE
    /\ events = <<>>
    /\ disk = NoFile
    /\ stream = NoStream
    /\ package_dir = None
    /\ saved = {}
    /\ config = Configured(NoConf)

\* The lists handed to AddFilesBulk: the records of the plain files of one
\* package, in any order, a path more than once too.
BulkLists ==
    UNION {[1..k -> {FileRow(n, p, "file") : p \in Paths}] :
              <<n, k>> \in Names \X (0..MaxBulk)}

(***************************************************************************)
(* Four views of the store, each a set of methods called in any order on   *)
(* a store that starts empty.                                              *)
(***************************************************************************)
\* A removal touches only the paths of the package, so the filesystem's
\* refusals are drawn from them.
Refusals(n) == SUBSET {files[i].path : i \in {j \in DOMAIN files : files[j].package = n}}
\* A refused path that the call never attempts changes nothing: the file
\* stage attempts the rows that are no directories, the directory stage the
\* directory rows.
FileRefusals(n) ==
    SUBSET {files[i].path : i \in {j \in DOMAIN files : files[j].package = n
                                                         /\ files[j].kind # "dir"}}
DirRefusals(n) ==
    SUBSET {files[i].path : i \in {j \in DOMAIN files : files[j].package = n
                                                         /\ files[j].kind = "dir"}}

\* The catalogue of packages: the rows a package owns keep it from being
\* removed.
NextCatalogue ==
    \/ \E n \in Names, s \in ScriptArgs : AddPackage(n, VersionList[1], s)
    \/ \E n \in Names : RemovePackage(n)
    \/ \E n \in Names : RemovePackageScripts(n)
    \/ \E n \in Names : AddFile(n, PathList[1], "file")
    \/ \E n \in Names : AddFile(n, PathList[2], "dir")
    \/ RemoveFileEntry(PathList[1])
    \/ \E n \in Names, d \in BOOLEAN : \E f \in Refusals(n) :
          RemovePackageContents(n, d, f)

SpecCatalogue == Init /\ [][NextCatalogue]_vars

\* The versions and scripts of the packages.
NextVersions ==
    \/ \E n \in Names, v \in Versions, s \in ScriptArgs : AddPackage(n, v, s)
    \/ \E n \in Names, c \in Versions, v \in Versions, s \in ScriptArgs :
          UpdatePackage(n, c, v, s)
    \/ \E n \in Names : AddFile(n, PathList[1], "file")

SpecVersions == Init /\ [][NextVersions]_vars

\* The registration of files.
NextFiles ==
    \/ \E l \in BulkLists : AddFilesBulk(l)
    \/ \E n \in Names, p \in Paths, k \in Kinds : AddFile(n, p, k)
    \/ \E p \in Paths : RemoveFileEntry(p)
    \/ \E p \in Paths : FindFileQuery(p)

SpecFiles == Init /\ [][NextFiles]_vars

\* The removal of a package's files and directories, stage by stage and all
\* stages in one call.
NextRemoval ==
    \/ AddPackage(NameList[1], VersionList[1], [isNone |-> TRUE, items |-> <<>>])
    \/ \E n \in Names, p \in Paths, k \in Kinds : AddFile(n, p, k)
    \/ \E n \in Names : \E f \in FileRefusals(n) : RemovePackageFiles(n, f)
    \/ \E n \in Names, d \in BOOLEAN : \E f \in DirRefusals(n) :
          RemovePackageDirectories(n, d, f)
    \/ \E n \in Names, d \in BOOLEAN : \E f \in Refusals(n) :
          RemovePackageContents(n, d, f)

SpecRemoval == Init /\ [][NextRemoval]_vars

\* The fetches.  file_url holds the url given, or the url of the file on the
\* update server and, where the master is another server, on the master
\* (l.598-605): one or two urls.
\* Fetches told apart by what answers at the urls: servers that fail and
\* servers that deliver the file whole.
SourceUrls ==
    LET servers == FailingServers
                      \cup {[kind |-> "file", honours |-> TRUE, sendsLength |-> TRUE,
                             dropsAt |-> 0]}
    IN  [1..1 -> servers] \cup [1..2 -> servers]

NextSources ==
    \E pathname \in BOOLEAN, intr_ok \in BOOLEAN, ignore_space \in BOOLEAN :
       \E file_url \in SourceUrls, size \in 0..MaxBody :
          TryGetNetworkFile(pathname, intr_ok, ignore_space, file_url, size)

SpecSources == Init /\ [][NextSources]_vars

\* Fetches told apart by how the one server asked delivers the file.
StreamUrls == [1..1 -> Servers]

NextStream ==
    \E pathname \in BOOLEAN, intr_ok \in BOOLEAN, ignore_space \in BOOLEAN :
       \E file_url \in StreamUrls, size \in 0..MaxBody :
          TryGetNetworkFile(pathname, intr_ok, ignore_space, file_url, size)

SpecStream == Init /\ [][NextStream]_vars

\* The chunk loops: bodies of up to MaxChunks chunks of a few bytes or of
\* about a hundred, read onto nothing or onto bytes held before.
MaxChunks == 3
ChunkSizes == {1, 29, 98}
ChunkLists == UNION {[1..n -> ChunkSizes] : n \in 0..MaxChunks}
Shortfalls == {{}, {1, 50}}
Offsets == {0, 71}

NextProgress ==
    \E handler \in BOOLEAN, sendsLength \in BOOLEAN, short \in Shortfalls :
       \E read \in Offsets, chunks \in ChunkLists :
          StreamBody(handler, sendsLength, short, read, chunks)

SpecProgress == Init /\ [][NextProgress]_vars

\* The update servers.  The file at _config_path as it may be found: as a
\* save of the program left it, removed, or written by hand.
HandWritten ==
    { <<DefaultsSection("mirror"),
        ServerSection("mirror", "mirror", "mirror.example", "yes")>>,
      <<ServerSection("default", "default", "mirror.example", None)>>,
      <<DefaultsSection("test"),
        ServerSection("mirror", "mirror", "mirror.example", "maybe")>>,
      <<DefaultsSection("test"), ServerSection("mirror", None, None, None)>> }
ConfFiles == {NoConf} \cup {ConfFile(t, f) : t \in Mtimes, f \in HandWritten}

NextServers ==
    \/ \E name \in ServerNames, save \in BOOLEAN, now \in Mtimes :
          SetUpdateServer(name, save, now)
    \/ \E server \in UpdateServers, save \in BOOLEAN, now \in Mtimes :
          AddUpdateServer(server, save, now)
    \/ \E name \in ServerNames, save \in BOOLEAN, now \in Mtimes :
          RemoveUpdateServer(name, save, now)
    \/ UpdateCache
    \/ \E found \in ConfFiles : WriteConf(found)

SpecServers == Init /\ [][NextServers]_vars

\* The searches.  The package searched for is NameList[1]; the file on the
\* update server, full or delta, holds FileSize bytes.
FileSize == MaxBody
Installed == VersionList[1]
Target == VersionList[2]
RightSum == Sha256(Body(FileSize))
WrongSum == Sha256(<<0>>)
Descriptor(vers, checksum, updates) ==
    [name |-> NameList[1], version |-> vers, checksum |-> checksum, updates |-> updates]
MissingServer == [kind |-> "missing", honours |-> FALSE, sendsLength |-> FALSE, dropsAt |-> 0]
GoodServer == [kind |-> "file", honours |-> TRUE, sendsLength |-> TRUE, dropsAt |-> 0]
DeafServer == [kind |-> "file", honours |-> FALSE, sendsLength |-> TRUE, dropsAt |-> 0]
DroppingServer == [kind |-> "file", honours |-> TRUE, sendsLength |-> TRUE, dropsAt |-> FileSize]
Net(full, delta) == [full |-> <<full>>, delta |-> <<delta>>]

\* The files that the read-only directory may hold for a package: none, or
\* the full file and the delta files, all with the bytes that the update
\* server has or all with other bytes.
FilesOf(package, bytes) ==
    {[name |-> FileName(package, None), data |-> bytes]}
        \cup {[name |-> FileName(package, u.version), data |-> bytes] : u \in package.updates}
Caches(package) == {{}, FilesOf(package, Body(FileSize)), FilesOf(package, <<0, 0>>)}

\* The candidates: packages of any version with an update from any version
\* or from none, searched for with any pkg_type on a system that has any
\* version of the package installed or none.
CandidatePackages ==
    {Descriptor(v, RightSum, ups) :
        v \in Versions,
        ups \in {{}} \cup {{[version |-> w, checksum |-> RightSum]} : w \in Versions}}
CandidateNets == {Net(f, d) : f \in {MissingServer, GoodServer}, d \in {MissingServer, GoodServer}}

NextCandidates ==
    \/ \E v \in Versions : AddPackage(NameList[1], v, [isNone |-> TRUE, items |-> <<>>])
    \/ RemovePackage(NameList[1])
    \/ \E loc \in {None, CacheDir} : SetPackageDir(loc)
    \/ \E package \in CandidatePackages, pkg_type \in PkgTypes, net \in CandidateNets :
          \E cache \in Caches(package) :
             FindPackageFile(cache, package, pkg_type, FALSE, TRUE, net, FileSize)

SpecCandidates == Init /\ [][NextCandidates]_vars

\* The checksum gate: a package with a right, a wrong or no checksum, with
\* or without an update from the installed version, searched for in the
\* read-only directory and on the update server, nothing being saved.
GatePackages ==
    {Descriptor(Target, c, ups) :
        c \in {NoChecksum, RightSum, WrongSum},
        ups \in {{}} \cup {{[version |-> Installed, checksum |-> d]}
                              : d \in {NoChecksum, RightSum, WrongSum}}}
GateNets ==
    {Net(f, d) : f \in {MissingServer, GoodServer, DroppingServer},
                 d \in {MissingServer, GoodServer, DroppingServer}}

NextGate ==
    \/ AddPackage(NameList[1], Installed, [isNone |-> TRUE, items |-> <<>>])
    \/ \E loc \in {None, CacheDir} : SetPackageDir(loc)
    \/ \E package \in GatePackages, pkg_type \in PkgTypes, net \in GateNets :
          \E cache \in Caches(package) :
             FindPackageFile(cache, package, pkg_type, FALSE, TRUE, net, FileSize)

SpecGate == Init /\ [][NextGate]_vars

\* The searches that save what they fetch into the package directory.
SavedPackages ==
    {Descriptor(Target, RightSum, ups) :
        ups \in {{}, {[version |-> Installed, checksum |-> RightSum]}}}
SavedNets ==
    {Net(f, d) : f \in {MissingServer, GoodServer, DeafServer, DroppingServer},
                 d \in {MissingServer, GoodServer, DroppingServer}}

NextSaved ==
    \/ AddPackage(NameList[1], Installed, [isNone |-> TRUE, items |-> <<>>])
    \/ \E loc \in {None, SaveDir} : SetPackageDir(loc)
    \/ \E package \in SavedPackages, net \in SavedNets :
          FindPackageFile({}, package, None, TRUE, TRUE, net, FileSize)

SpecSaved == Init /\ [][NextSaved]_vars

\* The audits.  The rows are those of one package: at a plain path a file,
\* a directory or a link, with no checksum, with "-" or with the digest of
\* the bytes <<1>>; at a path that ends with ".pyc" and at a path under /etc
\* a file with that digest; all with mode 0644 and the owner 0:0.
Mode0644 == 420
Mode0600 == 384
PlainPath == <<"/", "a">>
PycPath == <<"/", "a", ".", "p", "y", "c">>
EtcPath == <<"/", "e", "t", "c", "/", "a">>
AuditPaths == {PlainPath, PycPath, EtcPath}
AuditKinds == {"file", "dir", "slink"}
RecordedRow(path, kind, checksum) ==
    [FileRow(NameList[1], path, kind) EXCEPT !.checksum = checksum, !.mode = Mode0644]
AuditRows ==
    {RecordedRow(PlainPath, k, c) :
        k \in AuditKinds, c \in {[isNone |-> TRUE, sha256 |-> <<>>], Dash, Sha256(<<1>>)}}
    \cup {RecordedRow(PycPath, "file", Sha256(<<1>>)),
          RecordedRow(EtcPath, "file", Sha256(<<1>>))}

\* What may be at a path of the live filesystem.
Absent ==
    [ftype |-> "absent", mode |-> 0, uid |-> 0, gid |-> 0, data |-> <<>>,
     leads |-> "nowhere", linked |-> <<>>]
\* The mode and the owner found: those recorded, or one of them another.
Attributes ==
    {<<Mode0644, 0, 0>>, <<Mode0600, 0, 0>>, <<Mode0644, 1, 0>>, <<Mode0644, 0, 1>>}
LiveOf(ftype, a, data, leads, linked) ==
    [ftype |-> ftype, mode |-> a[1], uid |-> a[2], gid |-> a[3], data |-> data,
     leads |-> leads, linked |-> linked]
LiveFiles == {LiveOf("file", a, d, "nowhere", <<>>) : a \in Attributes, d \in {<<1>>, <<2>>}}
LiveDirs == {LiveOf("dir", a, <<>>, "nowhere", <<>>) : a \in Attributes}
LiveLinks ==
    {LiveOf("slink", a, t, "nowhere", <<>>) : a \in Attributes, t \in {<<47, 1>>, <<2>>}}
    \cup {LiveOf("slink", a, t, "dir", <<>>) : a \in Attributes, t \in {<<47, 1>>, <<2>>}}
    \cup {LiveOf("slink", a, <<47, 1>>, "file", d) : a \in Attributes, d \in {<<1>>, <<2>>}}
LiveEntries == {Absent} \cup LiveFiles \cup LiveDirs \cup LiveLinks

\* The live filesystems: anything at the plain path, a file or nothing at
\* the two others.
LiveSystems ==
    {[p \in AuditPaths |-> IF p = PlainPath THEN e ELSE IF p = PycPath THEN c ELSE x] :
        e \in LiveEntries,
        c \in {Absent} \cup LiveFiles,
        x \in {Absent, LiveOf("file", <<Mode0600, 1, 1>>, <<2>>, "nowhere", <<>>)}}

NextAudit ==
    \/ \E row \in AuditRows : AddFileRow(row)
    \/ \E live \in LiveSystems : do_verify(live)

SpecAudit == Init /\ [][NextAudit]_vars

(***************************************************************************)
(* What the tables hold, read off the rows themselves.                     *)
(***************************************************************************)
HasPackageRow(pkgs, n) == \E r \in pkgs : r.name = n
HasVersion(pkgs, n, v) == {r \in pkgs : r.name = n} = {[name |-> n, version |-> v]}
OwnsFileRow(fls, n) == \E i \in DOMAIN fls : fls[i].package = n
OwnsScriptRow(scr, n) == \E i \in DOMAIN scr : scr[i].package = n
ScriptRowSet(scr, n) == {scr[i] : i \in {j \in DOMAIN scr : scr[j].package = n}}
ScriptRowCount(scr, n) == Cardinality({j \in DOMAIN scr : scr[j].package = n})
RowsOfOthers(tbl, n) == SelectSeq(tbl, LAMBDA r : r.package # n)

\* The script rows of package n are exactly the items of the argument.
ScriptsAre(scr, n, scriptArg) ==
    /\ ScriptRowSet(scr, n) =
         {[package |-> n, type |-> scriptArg.items[i].type, script |-> scriptArg.items[i].script]
             : i \in DOMAIN scriptArg.items}
    /\ ScriptRowCount(scr, n) = Len(scriptArg.items)

(***************************************************************************)
(* C1: RemovePackage(name) on a package that still owns a file row or a    *)
(* script row fails with an integrity error, and the package row and all   *)
(* file and script rows stay in the store as they were.                    *)
(***************************************************************************)
C1_RemovePackageRefused ==
    \A n \in Names :
       ( /\ HasPackageRow(packages, n)
         /\ OwnsFileRow(files, n) \/ OwnsScriptRow(scripts, n) )
       => LET r == RemovePackageRun(packages, scripts, files, n)
          IN  /\ r.result = "IntegrityError"
              /\ r.packages = packages
              /\ r.files = files
              /\ r.scripts = scripts

\* RemovePackage was refused for a package that owns scripts but no file.
C1_Witness ==
    /\ op = "RemovePackage"
    /\ result = "IntegrityError"
    /\ \E n \in Names :
          /\ packages = {[name |-> n, version |-> VersionList[1]]}
          /\ OwnsScriptRow(scripts, n)
          /\ ~OwnsFileRow(files, n)

(***************************************************************************)
(* C2 as stated: for every package P, RemovePackage(P) fails while         *)
(* FindFilesForPackage(P) is non-empty and succeeds, deleting the package  *)
(* row, once it is empty.                                                  *)
(***************************************************************************)
C2_Original ==
    [][\A n \in Names :
          (RemovePackage(n) /\ HasPackageRow(packages, n))
          => IF OwnsFileRow(files, n)
             THEN result' = "IntegrityError" /\ HasPackageRow(packages', n)
             ELSE result' = None /\ ~HasPackageRow(packages', n)]_vars

(***************************************************************************)
(* C2 amended: for every package P recorded in the store, RemovePackage(P) *)
(* fails while FindFilesForPackage(P) is non-empty, and succeeds, deleting *)
(* the package row, once FindFilesForPackage(P) and FindScriptForPackage(P)*)
(* are both empty.                                                         *)
(***************************************************************************)
C2_RemovePackageWhenEmpty ==
    \A n \in Names :
       HasPackageRow(packages, n)
       => LET r == RemovePackageRun(packages, scripts, files, n)
          IN  /\ OwnsFileRow(files, n)
                 => r.result = "IntegrityError" /\ HasPackageRow(r.packages, n)
              /\ (~OwnsFileRow(files, n) /\ ~OwnsScriptRow(scripts, n))
                 => r.result = None /\ ~HasPackageRow(r.packages, n)

\* RemovePackage deleted the row of a package, next to a package that still
\* owns a file and a script.
C2_Witness ==
    /\ op = "RemovePackage"
    /\ result = None
    /\ events = <<DeletePackageRowEv>>
    /\ \E m \in Names :
          HasPackageRow(packages, m) /\ OwnsFileRow(files, m) /\ OwnsScriptRow(scripts, m)

(***************************************************************************)
(* C3: AddPackage(name, version, scripts) fails with AlreadyExists when a  *)
(* row of that name is present, leaving its version and scripts as they    *)
(* were; otherwise the row exists afterwards with the given version and    *)
(* the script rows of the package are exactly the supplied scripts.        *)
(***************************************************************************)
C3_AddPackage ==
    \A n \in Names, v \in Versions, s \in ScriptArgs :
       LET r == AddPackageRun(packages, scripts, files, n, v, s)
       IN  IF HasPackageRow(packages, n)
           THEN /\ r.result = "AlreadyExists"
                /\ r.packages = packages
                /\ r.scripts = scripts
           ELSE /\ r.result = None
                /\ HasVersion(r.packages, n, v)
                /\ ScriptsAre(r.scripts, n, s)

\* AddPackage stored a package together with a script.
C3_Witness ==
    /\ op = "AddPackage"
    /\ result = None
    /\ \E n \in Names : HasPackageRow(packages, n) /\ OwnsScriptRow(scripts, n)

(***************************************************************************)
(* C4: UpdatePackage fails with NotFound when the package is absent and    *)
(* with VersionMismatch when the recorded version differs from fromVersion;*)
(* in both cases, and when toVersion equals the recorded fromVersion, the  *)
(* recorded version and the stored scripts stay as they were, whatever     *)
(* scripts were supplied.                                                  *)
(***************************************************************************)
C4_UpdatePackageRefused ==
    \A n \in Names, c \in Versions, v \in Versions, s \in ScriptArgs :
       LET r == UpdatePackageRun(packages, scripts, files, n, c, v, s)
       IN  /\ ~HasPackageRow(packages, n) => r.result = "NotFound"
           /\ (HasPackageRow(packages, n) /\ ~HasVersion(packages, n, c))
                 => r.result = "VersionMismatch"
           /\ (HasVersion(packages, n, c) /\ v = c) => r.result = None
           /\ (~HasVersion(packages, n, c) \/ v = c)
                 => r.packages = packages /\ r.scripts = scripts

\* The no-op case: an update to the recorded version, on a package that has
\* no script, returned after its warning.
C4_Witness ==
    /\ op = "UpdatePackage"
    /\ result = None
    /\ warned
    /\ \E n \in Names : HasPackageRow(packages, n) /\ ~OwnsScriptRow(scripts, n)

(***************************************************************************)
(* C5: when the recorded version equals fromVersion and toVersion differs, *)
(* after UpdatePackage the recorded version is toVersion and the script    *)
(* rows of the package are exactly the supplied scripts; no row of another *)
(* package (package, script or file) is changed.                           *)
(***************************************************************************)
C5_UpdatePackageReplaces ==
    \A n \in Names, c \in Versions, v \in Versions, s \in ScriptArgs :
       (HasVersion(packages, n, c) /\ v # c)
       => LET r == UpdatePackageRun(packages, scripts, files, n, c, v, s)
          IN  /\ r.result = None
              /\ HasVersion(r.packages, n, v)
              /\ ScriptsAre(r.scripts, n, s)
              /\ {x \in r.packages : x.name # n} = {x \in packages : x.name # n}
              /\ RowsOfOthers(r.scripts, n) = RowsOfOthers(scripts, n)
              /\ r.files = files

\* UpdatePackage moved a package to the second version and took its script
\* away, next to another package that still has one.
C5_Witness ==
    /\ op = "UpdatePackage"
    /\ result = None
    /\ ~warned
    /\ \E n \in Names, m \in Names :
          /\ n # m
          /\ HasVersion(packages, n, VersionList[2])
          /\ ~OwnsScriptRow(scripts, n)
          /\ OwnsScriptRow(scripts, m)

(***************************************************************************)
(* C6: after any sequence of AddFile, AddFilesBulk and RemoveFileEntry     *)
(* calls the store holds at most one file row per path; registering a path *)
(* that has a row, also one of another package, replaces that row, so that *)
(* the one row of the path is that of the latest registration.             *)
(***************************************************************************)
RowsAt(fls, path) == {i \in DOMAIN fls : fls[i].path = path}
OneRowPerPath(fls) == \A p \in Paths : Cardinality(RowsAt(fls, p)) <= 1
OnlyRowAt(fls, row) ==
    /\ Cardinality(RowsAt(fls, row.path)) = 1
    /\ \A i \in RowsAt(fls, row.path) : fls[i] = row
LastOf(list, path) ==
    list[CHOOSE i \in RowsAt(list, path) : \A j \in RowsAt(list, path) : j <= i]

C6_OneRowPerPath ==
    /\ OneRowPerPath(files)
    /\ \A n \in Names, p \in Paths, k \in Kinds :
          OnlyRowAt(AddFileRun(packages, scripts, files, n, p, k).files, FileRow(n, p, k))
    /\ \A l \in BulkLists :
          LET r == AddFilesBulkRun(packages, scripts, files, l)
          IN  \A p \in {l[i].path : i \in DOMAIN l} : OnlyRowAt(r.files, LastOf(l, p))

\* AddFile overwrote the row of a path and left it to the second package;
\* the row of the other path stayed.
C6_Witness ==
    /\ op = "AddFile"
    /\ events = <<ReplaceRowEv(PathList[1])>>
    /\ Len(files) = 2
    /\ \E i \in DOMAIN files :
          files[i] = FileRow(NameList[2], PathList[1], "file")

(***************************************************************************)
(* C7: AddFilesBulk is idempotent: for every record list and every state   *)
(* of the store, applying AddFilesBulk(records) twice in a row leaves the  *)
(* same file rows as applying it once.                                     *)
(***************************************************************************)
C7_AddFilesBulkIdempotent ==
    \A l \in BulkLists :
       LET once == AddFilesBulkRun(packages, scripts, files, l)
       IN  AddFilesBulkRun(once.packages, once.scripts, once.files, l).files = once.files

\* AddFilesBulk met a row at one of its two paths and overwrote it.
C7_Witness ==
    /\ op = "AddFilesBulk"
    /\ Len(files) = 2
    /\ Len(events) = 1

(***************************************************************************)
(* What a removal call did, read off its events.                           *)
(***************************************************************************)
PathsOwned(fls, n) == {fls[i].path : i \in {j \in DOMAIN fls : fls[j].package = n}}
NonDirPathsOwned(fls, n) ==
    {fls[i].path : i \in {j \in DOMAIN fls : fls[j].package = n /\ fls[j].kind # "dir"}}
RowSet(fls) == {fls[i] : i \in DOMAIN fls}
RemovedOk(evs) ==
    {evs[i].path : i \in {j \in DOMAIN evs :
                              evs[j].ev \in {"RemoveFile", "RemoveDirectory"} /\ evs[j].ok}}

\* Path a is a proper ancestor of path b: b is a, a "/" and more.
ProperAncestor(a, b) ==
    /\ Len(a) < Len(b)
    /\ SubSeq(b, 1, Len(a)) = a
    /\ b[Len(a) + 1] = "/"

(***************************************************************************)
(* C8: in RemovePackageFiles no file row is deleted before the filesystem  *)
(* removal of its path has succeeded; if the removal of any non-directory  *)
(* path of the package fails, the call aborts with an error and no file    *)
(* row has been deleted; on success every non-directory row of the package *)
(* is deleted and its directory rows (and all other rows) are untouched.   *)
(***************************************************************************)
C8_RemovePackageFiles ==
    \A n \in Names : \A f \in Refusals(n) :
       HasPackageRow(packages, n)
       => LET r == RemovePackageFilesRun(packages, scripts, files, n, f)
          IN  /\ \A j \in DOMAIN r.events :
                    r.events[j].ev = "DeleteRow"
                    => \E i \in 1..(j - 1) : r.events[i] = RemoveFileEv(r.events[j].path, TRUE)
              /\ \A row \in RowSet(files) \ RowSet(r.files) :
                    \E j \in DOMAIN r.events : r.events[j] = DeleteRowEv(row.path)
              /\ IF NonDirPathsOwned(files, n) \cap f # {}
                 THEN r.result = "FilesystemError" /\ r.files = files
                 ELSE /\ r.result = "True"
                      /\ r.files =
                            SelectSeq(files, LAMBDA x : ~(x.package = n /\ x.kind # "dir"))

\* RemovePackageFiles removed one file of a package, failed on the next and
\* left both rows.
C8_Witness ==
    /\ op = "RemovePackageFiles"
    /\ result = "FilesystemError"
    /\ Len(events) = 2
    /\ events[1].ok /\ ~events[2].ok
    /\ \E n \in Names : NonDirPathsOwned(files, n) = {events[1].path, events[2].path}

(***************************************************************************)
(* C9: a filesystem removal failure during RemovePackageFiles or           *)
(* RemovePackageContents does not leave store and filesystem out of sync:  *)
(* when the call fails, the file rows still recorded for the package are   *)
(* exactly its paths that were not removed from the filesystem.            *)
(***************************************************************************)
C9_RowsMatchFilesystem ==
    [][\A n \in Names, d \in BOOLEAN : \A f \in Refusals(n) :
          ( /\ RemovePackageFiles(n, f) \/ RemovePackageContents(n, d, f)
            /\ result' = "FilesystemError" )
          => PathsOwned(files', n) = PathsOwned(files, n) \ RemovedOk(events')]_vars

(***************************************************************************)
(* C10: RemovePackageDirectories attempts its removals in descending path  *)
(* order: of two directory rows of the package of which one path is a      *)
(* proper ancestor of the other, the descendant is attempted first.        *)
(***************************************************************************)
C10_ChildBeforeParent ==
    op \in {"RemovePackageDirectories", "RemovePackageContents"}
    => \A i, j \in DOMAIN events :
          ( /\ events[i].ev = "RemoveDirectory"
            /\ events[j].ev = "RemoveDirectory"
            /\ ProperAncestor(events[i].path, events[j].path) )
          => j < i

\* RemovePackageDirectories attempted /a/b and then /a, which had been
\* registered first.
C10_Witness ==
    /\ op = "RemovePackageDirectories"
    /\ Len(events) >= 2
    /\ events[1].ev = "RemoveDirectory" /\ events[1].path = PathList[2]
    /\ events[2].ev = "RemoveDirectory" /\ events[2].path = PathList[1]

(***************************************************************************)
(* C11: RemovePackageDirectories with failDirectoryRemoval = False         *)
(* tolerates refused removals: the call returns True and every directory   *)
(* row of the package is deleted, also the rows of the directories that    *)
(* could not be removed; with failDirectoryRemoval = True a refused        *)
(* removal makes the call fail and no directory row is deleted.            *)
(***************************************************************************)
DirPathsOwned(fls, n) ==
    {fls[i].path : i \in {j \in DOMAIN fls : fls[j].package = n /\ fls[j].kind = "dir"}}
WithoutDirRows(fls, n) == SelectSeq(fls, LAMBDA x : ~(x.package = n /\ x.kind = "dir"))

C11_RemovePackageDirectories ==
    \A n \in Names : \A f \in Refusals(n) :
       HasPackageRow(packages, n)
       => LET lax    == RemovePackageDirectoriesRun(packages, scripts, files, n, FALSE, f)
              strict == RemovePackageDirectoriesRun(packages, scripts, files, n, TRUE, f)
          IN  /\ lax.result = "True"
              /\ lax.files = WithoutDirRows(files, n)
              /\ IF DirPathsOwned(files, n) \cap f # {}
                 THEN strict.result = "FilesystemError" /\ strict.files = files
                 ELSE strict.result = "True" /\ strict.files = WithoutDirRows(files, n)

\* RemovePackageDirectories returned True after a directory could not be
\* removed, and deleted the row of that directory.
C11_Witness ==
    /\ op = "RemovePackageDirectories"
    /\ result = "True"
    /\ \E i, j \in DOMAIN events :
          /\ events[i].ev = "RemoveDirectory" /\ ~events[i].ok
          /\ events[j] = DeleteRowEv(events[i].path)
          /\ ~FindFile(files, events[i].path)

(***************************************************************************)
(* C12: RemovePackageContents removes the files, then the directories,     *)
(* then the scripts of the package; a stage that fails keeps the later     *)
(* stages from running; when all three succeed the package owns no file    *)
(* row and no script row and its package row is still there.               *)
(***************************************************************************)
C12_RemovePackageContents ==
    \A n \in Names, d \in BOOLEAN : \A f \in Refusals(n) :
       HasPackageRow(packages, n)
       => LET r == RemovePackageContentsRun(packages, scripts, files, n, d, f)
              dirEvs == {i \in DOMAIN r.events : r.events[i].ev = "RemoveDirectory"}
          IN  /\ \A i, j \in DOMAIN r.events :
                    (r.events[i].ev = "RemoveFile" /\ j \in dirEvs) => i < j
              /\ IF NonDirPathsOwned(files, n) \cap f # {}
                 THEN /\ r.result = "FilesystemError"
                      /\ dirEvs = {}
                      /\ r.files = files /\ r.scripts = scripts
                 ELSE IF d /\ DirPathsOwned(files, n) \cap f # {}
                 THEN /\ r.result = "FilesystemError"
                      /\ DirPathsOwned(r.files, n) = DirPathsOwned(files, n)
                      /\ r.scripts = scripts
                 ELSE /\ r.result = "True"
                      /\ ~OwnsFileRow(r.files, n)
                      /\ ~OwnsScriptRow(r.scripts, n)
                      /\ r.packages = packages

\* RemovePackageContents removed the file of a package, failed on its
\* directory and left the scripts of the package in place.
C12_Witness ==
    /\ op = "RemovePackageContents"
    /\ result = "FilesystemError"
    /\ Len(events) = 3
    /\ events[1] = RemoveFileEv(PathList[1], TRUE)
    /\ events[2] = DeleteRowEv(PathList[1])
    /\ events[3] = RemoveDirectoryEv(PathList[2], FALSE)
    /\ \E n \in Names :
          /\ PathList[2] \in DirPathsOwned(files, n)
          /\ OwnsScriptRow(scripts, n)

(***************************************************************************)
(* What a call of TryGetNetworkFile did, read off its events.              *)
(***************************************************************************)
Gets(evs) == SelectSeq(evs, LAMBDA e : e.ev = "Get")
Written(evs) ==
    LET w == SelectSeq(evs, LAMBDA e : e.ev = "Write")
    IN  [i \in DOMAIN w |-> w[i].data]
Stops(status) == status \in {"200", "206", "416"}
HeldBefore(dsk) == IF dsk.exists THEN dsk.data ELSE <<>>

(***************************************************************************)
(* C13: TryGetNetworkFile asks its urls in list order and each once at     *)
(* most; it asks no later url once a url has answered with the file or     *)
(* with 416, and after a url that fails (404, another HTTP error, no       *)
(* connection) it asks the next url of the list.                           *)
(***************************************************************************)
C13_SourcesInOrder ==
    \A pathname \in BOOLEAN, intr_ok \in BOOLEAN, ignore_space \in BOOLEAN :
       \A file_url \in SourceUrls, size \in 0..MaxBody :
          \A r \in {TryGetNetworkFileRun(disk, pathname, intr_ok, ignore_space,
                                         file_url, size)} :
             \A gets \in {Gets(r.events)} :
                /\ Len(gets) \in 1..Len(file_url)
                /\ \A i \in DOMAIN gets :
                      /\ gets[i].src = i
                      /\ gets[i].status =
                            Respond(file_url[i], size, gets[i].ranged, gets[i].from).status
                      /\ Stops(gets[i].status) => i = Len(gets)
                      /\ ~Stops(gets[i].status) /\ i < Len(file_url) => i < Len(gets)

\* The first url failed, the second answered with the file: two requests.
C13_Witness ==
    /\ op = "TryGetNetworkFile"
    /\ result = "Stream"
    /\ Len(Gets(events)) = 2
    /\ events[1].ev = "Get" /\ events[1].src = 1 /\ events[1].status = "404"
    /\ events[2].ev = "Get" /\ events[2].src = 2 /\ events[2].status \in {"200", "206"}

(***************************************************************************)
(* C14: when a url answers 416 to a fetch with intr_ok set,                *)
(* TryGetNetworkFile returns the file object positioned at 0 and holding   *)
(* exactly the bytes the file at the pathname held before the call; no     *)
(* byte of a body is written and no further url is asked.                  *)
(***************************************************************************)
C14_RangeNotSatisfiable ==
    \A pathname \in BOOLEAN, ignore_space \in BOOLEAN :
       \A file_url \in SourceUrls, size \in 0..MaxBody :
          \A r \in {TryGetNetworkFileRun(disk, pathname, TRUE, ignore_space,
                                         file_url, size)} :
             \A gets \in {Gets(r.events)} :
                (\E i \in DOMAIN gets : gets[i].status = "416")
                => /\ gets[Len(gets)].status = "416"
                   /\ r.events = gets
                   /\ r.result = "Stream"
                   /\ r.stream = StreamAt(IF pathname THEN HeldBefore(disk) ELSE <<>>, 0)
                   /\ pathname => r.disk = FileOf(HeldBefore(disk))

\* The second url answered 416 to a fetch onto a file that held bytes; the
\* file object returned holds them.
C14_Witness ==
    /\ op = "TryGetNetworkFile"
    /\ result = "Stream"
    /\ Len(events) = 2
    /\ events[2].ev = "Get" /\ events[2].status = "416" /\ events[2].from > 0
    /\ stream.open /\ stream.pos = 0
    /\ Len(stream.data) = events[2].from
    /\ disk = FileOf(stream.data)

(***************************************************************************)
(* C15: TryGetNetworkFile raises the error of a url only after every url   *)
(* of the list was asked and failed, and the error it raises is that of    *)
(* the last url asked: NotFound after a 404, ConnectionError after a       *)
(* failed connection.                                                      *)
(***************************************************************************)
SourceErrors == {"NotFound", "ConnectionError", "requests.HTTPError", "OtherError"}

C15_LastErrorRaised ==
    \A pathname \in BOOLEAN, intr_ok \in BOOLEAN, ignore_space \in BOOLEAN :
       \A file_url \in SourceUrls, size \in 0..MaxBody :
          \A r \in {TryGetNetworkFileRun(disk, pathname, intr_ok, ignore_space,
                                         file_url, size)} :
             \A gets \in {Gets(r.events)} :
                LET allFailed == /\ Len(gets) = Len(file_url)
                                 /\ \A i \in DOMAIN gets : ~Stops(gets[i].status)
                    lastStatus == gets[Len(gets)].status
                IN  /\ r.result \in SourceErrors <=> allFailed
                    /\ allFailed /\ lastStatus = "404" => r.result = "NotFound"
                    /\ allFailed /\ lastStatus = "ConnectionError"
                          => r.result = "ConnectionError"

\* The first url answered 404, the connection to the second failed:
\* ConnectionError was raised.
C15_Witness ==
    /\ op = "TryGetNetworkFile"
    /\ result = "ConnectionError"
    /\ Len(events) = 2
    /\ events[1].ev = "Get" /\ events[1].status = "404"
    /\ events[2].ev = "Get" /\ events[2].status = "ConnectionError"

(***************************************************************************)
(* C16: when the last url asked answers with an HTTP error that is neither *)
(* 404 nor 416, TryGetNetworkFile fails with ServerError.                  *)
(***************************************************************************)
C16_ServerError ==
    ( /\ op = "TryGetNetworkFile"
      /\ events # <<>>
      /\ events[Len(events)].ev = "Get"
      /\ events[Len(events)].status = "500" )
    => result = "ServerError"

(***************************************************************************)
(* What the free-space check of a call saw: the events of the check, the   *)
(* Content-Length of the answer and the offset the fetch started from.     *)
(***************************************************************************)
Checks(evs) == SelectSeq(evs, LAMBDA e : e.ev = "CheckFreeSpace")
FirstWrite(evs) ==
    IF \E i \in DOMAIN evs : evs[i].ev = "Write"
    THEN CHOOSE i \in DOMAIN evs :
            evs[i].ev = "Write" /\ \A j \in 1..(i - 1) : evs[j].ev # "Write"
    ELSE Len(evs) + 1
ContentLength(server, size, get) == Len(Respond(server, size, get.ranged, get.from).body)

\* The check is consulted once, with the Content-Length, before the first
\* write; a refusal ends the call with nothing written.
SpaceChecked(r, required, from) ==
    /\ Checks(r.events) = <<CheckFreeSpaceEv(required, CheckFreeSpace(required))>>
    /\ \A i \in DOMAIN r.events :
          r.events[i].ev = "CheckFreeSpace" => i < FirstWrite(r.events)
    /\ ~CheckFreeSpace(required)
          => /\ r.result = "InsufficientSpace"
             /\ Written(r.events) = <<>>
             /\ Len(r.disk.data) = from

(***************************************************************************)
(* C17 as stated: whenever the total size is known, a pathname is given    *)
(* and ignore_space is not set, CheckFreeSpace is consulted with           *)
(* required = totalsize - read before a byte of the body is written, and   *)
(* its refusal ends the call with InsufficientSpace and nothing written;   *)
(* with ignore_space set it is never consulted.                            *)
(***************************************************************************)
C17_Original ==
    \A pathname \in BOOLEAN, intr_ok \in BOOLEAN, ignore_space \in BOOLEAN :
       \A file_url \in StreamUrls, size \in 0..MaxBody :
          \A r \in {TryGetNetworkFileRun(disk, pathname, intr_ok, ignore_space,
                                         file_url, size)} :
             \A get \in {r.events[1]} :
                Answered(get.status)
                => /\ (file_url[1].sendsLength /\ pathname /\ ~ignore_space)
                         => SpaceChecked(r, ContentLength(file_url[1], size, get), get.from)
                   /\ ignore_space
                         => Checks(r.events) = <<>> /\ r.result # "InsufficientSpace"

(***************************************************************************)
(* C17: whenever the total size is known and is not zero, a pathname is    *)
(* given and ignore_space is not set, CheckFreeSpace is consulted with     *)
(* required = totalsize - read before a byte of the body is written, and   *)
(* its refusal ends the call with InsufficientSpace and nothing written;   *)
(* with ignore_space set it is never consulted.                            *)
(***************************************************************************)
C17_SpaceCheck ==
    \A pathname \in BOOLEAN, intr_ok \in BOOLEAN, ignore_space \in BOOLEAN :
       \A file_url \in StreamUrls, size \in 0..MaxBody :
          \A r \in {TryGetNetworkFileRun(disk, pathname, intr_ok, ignore_space,
                                         file_url, size)} :
             \A get \in {r.events[1]} :
                Answered(get.status)
                => /\ ( /\ file_url[1].sendsLength
                        /\ get.from + ContentLength(file_url[1], size, get) # 0
                        /\ pathname /\ ~ignore_space )
                         => SpaceChecked(r, ContentLength(file_url[1], size, get), get.from)
                   /\ ignore_space
                         => Checks(r.events) = <<>> /\ r.result # "InsufficientSpace"

\* CheckFreeSpace refused the bytes of the answer: InsufficientSpace, and the
\* file at the pathname holds no byte more than before.
C17_Witness ==
    /\ op = "TryGetNetworkFile"
    /\ result = "InsufficientSpace"
    /\ Len(events) = 2
    /\ events[1].ev = "Get"
    /\ events[2].ev = "CheckFreeSpace" /\ ~events[2].ok
    /\ disk.exists /\ Len(disk.data) = events[1].from

(***************************************************************************)
(* C18: when reading the body fails and a pathname was given, the file at  *)
(* the pathname is gone when the failure reaches the caller if intr_ok is  *)
(* not set; if intr_ok is set the file stays and holds the bytes it held   *)
(* before followed by the bytes written before the failure.                *)
(***************************************************************************)
C18_PartialFile ==
    \A intr_ok \in BOOLEAN, ignore_space \in BOOLEAN :
       \A file_url \in StreamUrls, size \in 0..MaxBody :
          \A r \in {TryGetNetworkFileRun(disk, TRUE, intr_ok, ignore_space,
                                         file_url, size)} :
             r.result = "ReadError"
             => IF intr_ok
                THEN r.disk = FileOf(HeldBefore(disk) \o Written(r.events))
                ELSE ~r.disk.exists

\* A read failed after a byte was appended to a file that held one.
C18_Witness ==
    /\ op = "TryGetNetworkFile"
    /\ result = "ReadError"
    /\ events[1].ev = "Get" /\ events[1].ranged /\ events[1].from > 0
    /\ Len(Written(events)) > 0
    /\ disk.exists
    /\ Len(disk.data) = events[1].from + Len(Written(events))

(***************************************************************************)
(* C19: whenever TryGetNetworkFile with a pathname and intr_ok not set     *)
(* fails, whatever the reason, no file is left at the pathname.            *)
(***************************************************************************)
C19_NoFileAfterFailure ==
    \A ignore_space \in BOOLEAN :
       \A file_url \in StreamUrls, size \in 0..MaxBody :
          \A r \in {TryGetNetworkFileRun(disk, TRUE, FALSE, ignore_space,
                                         file_url, size)} :
             r.result # "Stream" => ~r.disk.exists

(***************************************************************************)
(* C20: after a fetch that was interrupted when it had written bytes to    *)
(* the file at the pathname, a fetch of the same file from the same server *)
(* with intr_ok set returns the bytes that one uninterrupted fetch         *)
(* returns.                                                                *)
(***************************************************************************)
C20_ResumedEqualsWhole ==
    \A intr_ok \in BOOLEAN, honours \in BOOLEAN, sendsLength \in BOOLEAN :
       \A size \in 0..MaxBody, dropsAt \in 1..MaxBody :
          LET server(d) == [kind |-> "file", honours |-> honours,
                            sendsLength |-> sendsLength, dropsAt |-> d]
              first  == TryGetNetworkFileRun(NoFile, TRUE, intr_ok, TRUE,
                                             <<server(dropsAt)>>, size)
              second == TryGetNetworkFileRun(first.disk, TRUE, TRUE, TRUE,
                                             <<server(0)>>, size)
              whole  == TryGetNetworkFileRun(NoFile, TRUE, FALSE, TRUE,
                                             <<server(0)>>, size)
          IN  ( /\ op = "TryGetNetworkFile" /\ result = "ReadError"
                /\ first.result = "ReadError"
                /\ events = first.events /\ disk = first.disk )
              => second.result = "Stream" /\ second.stream = whole.stream

(***************************************************************************)
(* The claims about FindPackageFile are stated about the searches of the   *)
(* specification they name, run from every state it reaches.               *)
(***************************************************************************)
\* The examinations recorded, in order: of the package directory and of the
\* update server.
Locals(evs) == SelectSeq(evs, LAMBDA e : e.ev = "Local")
Fetches(evs) == SelectSeq(evs, LAMBDA e : e.ev = "Fetch")
FilenamesOf(list) == [i \in DOMAIN list |-> list[i].Filename]
NoServer == Net(MissingServer, MissingServer)

(***************************************************************************)
(* C21: the candidate list of FindPackageFile holds a full candidate if    *)
(* and only if pkg_type is not PkgFileDeltaOnly, and a delta candidate if  *)
(* and only if pkg_type is not PkgFileFullOnly, the store holds a version  *)
(* of the package that is not the version searched for, and the package    *)
(* has an update from that version; the full candidate comes before the    *)
(* delta candidate.  The list is the one that the search goes through:     *)
(* with nothing found the files asked of the update server are those of    *)
(* the list, last first.                                                   *)
(***************************************************************************)
C21_CandidateList ==
    \A package \in CandidatePackages, pkg_type \in PkgTypes :
       LET list     == PackageFiles(packages, package, pkg_type)
           curVers  == FindPackage(packages, package.name)
           fulls    == {i \in DOMAIN list : ~list[i].Delta}
           deltas   == {i \in DOMAIN list : list[i].Delta}
           r        == FindPackageFileRun(packages, package_dir, saved, {}, package,
                                          pkg_type, FALSE, TRUE, NoServer, FileSize)
       IN  /\ Cardinality(fulls) <= 1 /\ Cardinality(deltas) <= 1
           /\ (fulls # {}) <=> (pkg_type # PkgFileDeltaOnly)
           /\ (deltas # {}) <=>
                 ( /\ pkg_type # PkgFileFullOnly
                   /\ curVers # None
                   /\ curVers # package.version
                   /\ \E u \in package.updates : u.version = curVers )
           /\ \A i \in fulls : list[i].Filename = FileName(package, None)
           /\ \A i \in deltas : list[i].Filename = FileName(package, curVers)
           /\ \A i \in fulls, j \in deltas : i < j
           /\ FilenamesOf(Fetches(r.events)) = Reversed(FilenamesOf(list))

\* A search with a full and a delta candidate asked the update server for
\* both and found neither.
C21_Witness ==
    /\ op = "FindPackageFile"
    /\ result = "UpdatePackageNotFound"
    /\ Len(Fetches(events)) = 2
    /\ Fetches(events)[1].Filename.from = FindPackage(packages, NameList[1])
    /\ Fetches(events)[2].Filename.from = None

(***************************************************************************)
(* C22: FindPackageFile examines the candidates in the order local full,   *)
(* local delta, network delta, network full: every look into the package   *)
(* directory comes before every fetch, a fetch is made only after every    *)
(* candidate was looked for in the package directory (where one is set),   *)
(* the full file is looked for before the delta file and the delta file is *)
(* fetched before the full file.                                           *)
(***************************************************************************)
C22_SearchOrder ==
    \A package \in CandidatePackages, pkg_type \in PkgTypes, net \in CandidateNets :
       \A cache \in Caches(package) :
          \A r \in {FindPackageFileRun(packages, package_dir, saved, cache, package,
                                       pkg_type, FALSE, TRUE, net, FileSize)} :
             LET list == PackageFiles(packages, package, pkg_type)
                 evs  == r.events
                 locals  == {i \in DOMAIN evs : evs[i].ev = "Local"}
                 fetches == {i \in DOMAIN evs : evs[i].ev = "Fetch"}
             IN  /\ \A i \in locals, j \in fetches : i < j
                 /\ (fetches # {} /\ package_dir # None)
                       => FilenamesOf(Locals(evs)) = FilenamesOf(list)
                 /\ \A i, j \in locals :
                       (evs[i].Filename.from = None /\ evs[j].Filename.from # None) => i < j
                 /\ \A i, j \in fetches :
                       (evs[i].Filename.from # None /\ evs[j].Filename.from = None) => i < j

\* A search looked for the full file and for the delta file in the package
\* directory, then fetched the delta file and then the full file.
C22_Witness ==
    /\ op = "FindPackageFile"
    /\ Len(Locals(events)) = 2 /\ Len(Fetches(events)) = 2
    /\ Locals(events)[1].Filename.from = None /\ Locals(events)[1].found
    /\ Locals(events)[2].Filename.from # None /\ Locals(events)[2].found
    /\ Fetches(events)[1].Filename.from # None
    /\ Fetches(events)[2].Filename.from = None
    /\ result = "Stream"

(***************************************************************************)
(* C23: FindPackageFile returns the file of a candidate that has a         *)
(* checksum only when the SHA-256 digest of that file is the checksum, and *)
(* it returns the first candidate in search order whose file is there (in  *)
(* the package directory, or delivered by the update server) and has no    *)
(* checksum to meet or meets it, without examining a later one; when no    *)
(* candidate is such, it returns no file.                                  *)
(***************************************************************************)
\* The examinations in search order.
Exams(list, pkg_dir) ==
    (IF pkg_dir = None THEN <<>>
     ELSE [i \in DOMAIN list |-> [where |-> "Local", attempt |-> list[i]]])
    \o [i \in DOMAIN list |-> [where |-> "Fetch", attempt |-> Reversed(list)[i]]]

\* The file that an examination comes upon when nothing is saved.
Obtained(exam, cache, net) ==
    IF exam.where = "Local" THEN FileAt(cache, exam.attempt.Filename)
    ELSE LET fetch == TryGetNetworkFileRun(NoFile, FALSE, TRUE, TRUE,
                         IF exam.attempt.Delta THEN net.delta ELSE net.full, FileSize)
         IN  IF fetch.result = "Stream" THEN FileOf(fetch.stream.data) ELSE NoFile

Passes(exam, cache, net) ==
    LET file == Obtained(exam, cache, net)
    IN  /\ file.exists
        /\ exam.attempt.Checksum.isNone \/ Sha256(file.data) = exam.attempt.Checksum

Examined(evs) == SelectSeq(evs, LAMBDA e : e.ev \in {"Local", "Fetch"})

C23_ChecksumGate ==
    \A package \in GatePackages, pkg_type \in PkgTypes, net \in GateNets :
       \A cache \in Caches(package) :
          \A r \in {FindPackageFileRun(packages, package_dir, saved, cache, package,
                                       pkg_type, FALSE, TRUE, net, FileSize)} :
             LET exams   == Exams(PackageFiles(packages, package, pkg_type), package_dir)
                 passing == {i \in DOMAIN exams : Passes(exams[i], cache, net)}
                 first   == CHOOSE i \in passing : \A j \in passing : i <= j
                 done    == Examined(r.events)
             IN  IF passing = {}
                 THEN r.result # "Stream" /\ ~r.stream.open
                 ELSE /\ r.result = "Stream"
                      /\ r.stream = StreamAt(Obtained(exams[first], cache, net).data, 0)
                      /\ Len(done) = first
                      /\ \A i \in 1..first :
                            /\ done[i].ev = exams[i].where
                            /\ done[i].Filename = exams[i].attempt.Filename

\* A search found a file with a wrong digest in the package directory, then
\* fetched a delta file with a wrong digest and then the full file, which
\* it returned.
C23_Witness ==
    /\ op = "FindPackageFile"
    /\ result = "Stream"
    /\ stream = StreamAt(Body(FileSize), 0)
    /\ \E i, j \in DOMAIN events :
          /\ i < j /\ j < Len(events)
          /\ events[i].ev = "Local" /\ events[i].found /\ ~events[i].ok
          /\ events[j].ev = "Verify" /\ ~events[j].ok
    /\ events[Len(events)].ev = "Verify" /\ events[Len(events)].ok
    /\ events[Len(events)].Filename.from = None

(***************************************************************************)
(* C24: when the package directory holds a file for a candidate whose      *)
(* digest is not the checksum of the candidate, and the update server      *)
(* delivers the file of that candidate with the right digest,              *)
(* FindPackageFile does not fail: it passes over the local file, fetches   *)
(* the file and returns what the update server has.  Stated for a package  *)
(* with the full candidate alone.                                          *)
(***************************************************************************)
C24_WrongLocalFile ==
    \A server \in {GoodServer, DeafServer} :
       LET package == Descriptor(Target, RightSum, {})
           local   == FileAt(Holds(package_dir, saved, {}), FileName(package, None))
           r       == FindPackageFileRun(packages, package_dir, saved, {}, package, None,
                                         TRUE, TRUE, Net(server, MissingServer), FileSize)
       IN  ( /\ package_dir # None
             /\ local.exists
             /\ ChecksumFile(local.data) # package.checksum )
           => /\ r.result = "Stream"
              /\ r.stream = StreamAt(Body(FileSize), 0)

(***************************************************************************)
(* C25: a call of FindPackageFile that returns no file fails with          *)
(* UpdatePackageNotFound when it came upon no file with a wrong digest,    *)
(* the empty candidate list included, with ChecksumFailException when the  *)
(* digest of a local or a fetched file was not the checksum, and with no   *)
(* other error.                                                            *)
(***************************************************************************)
Mismatches(evs) ==
    {i \in DOMAIN evs : \/ evs[i].ev = "Local" /\ evs[i].found /\ ~evs[i].ok
                        \/ evs[i].ev = "Verify" /\ ~evs[i].ok}

C25_Exhaustion ==
    \A package \in GatePackages, pkg_type \in PkgTypes, net \in GateNets :
       \A cache \in Caches(package) :
          \A r \in {FindPackageFileRun(packages, package_dir, saved, cache, package,
                                       pkg_type, FALSE, TRUE, net, FileSize)} :
             r.result # "Stream"
             => r.result = IF Mismatches(r.events) = {} THEN "UpdatePackageNotFound"
                           ELSE "ChecksumFailException"

(***************************************************************************)
(* C26: a fetch that fails, with not-found or with any other error, does   *)
(* not end the search: the error is not the result of FindPackageFile, the *)
(* candidate that is left is fetched next, and FindPackageFile fails only  *)
(* when every candidate was fetched.                                       *)
(***************************************************************************)
C26_FetchFailureAbsorbed ==
    \A package \in SavedPackages, net \in SavedNets :
       \A r \in {FindPackageFileRun(packages, package_dir, saved, {}, package, None,
                                    TRUE, TRUE, net, FileSize)} :
          LET list    == PackageFiles(packages, package, None)
              fetched == Fetches(r.events)
          IN  /\ r.result \in {"Stream", "UpdatePackageNotFound", "ChecksumFailException"}
              /\ \A i \in DOMAIN fetched :
                    (fetched[i].result # "Stream" /\ i < Len(list)) => i < Len(fetched)
              /\ \A i \in DOMAIN fetched :
                    fetched[i].Filename = Reversed(list)[i].Filename
              /\ (r.result # "Stream" /\ Mismatches(r.events) = {})
                    => Len(fetched) = Len(list)

\* The fetch of the delta file failed, the full file was fetched after it
\* and returned.
C26_Witness ==
    /\ op = "FindPackageFile"
    /\ result = "Stream"
    /\ Len(Fetches(events)) = 2
    /\ Fetches(events)[1].Filename.from # None
    /\ Fetches(events)[1].result \in {"NotFound", "ReadError"}
    /\ Fetches(events)[2].Filename.from = None
    /\ Fetches(events)[2].result = "Stream"

(***************************************************************************)
(* The claims about do_verify are stated about the audit of every live     *)
(* filesystem of SpecAudit, run on every table files that it reaches.      *)
(***************************************************************************)
\* The entries of a kind that a run made for a path.
EntriesFor(evs, kind, path) == SelectSeq(evs, LAMBDA e : e.ev = kind /\ e.path = path)
ErrorsFor(evs, path) ==
    SelectSeq(evs, LAMBDA e : e.ev \in {"notfound", "wrongtype", "checksum"} /\ e.path = path)
AllFor(evs, path) == SelectSeq(evs, LAMBDA e : e.path = path)
Audited(fls) == {i \in DOMAIN fls : ~is_ignore_path(fls[i].path)}

(***************************************************************************)
(* C27: for a row whose path is not on the skip list and is not there in   *)
(* the live filesystem, do_verify makes one notfound entry and no other    *)
(* entry, error or warning; a link that leads nowhere is there, and no     *)
(* notfound entry is made for it.                                          *)
(***************************************************************************)
C27_NotFound ==
    \A live \in LiveSystems :
       \A r \in {do_verifyRun(files, live)} :
          \A i \in Audited(files) :
             LET path == files[i].path
             IN  /\ (r.result = "Returned" /\ live[path].ftype = "absent")
                       => AllFor(r.events, path) = <<NotFoundEntry(path)>>
                 /\ live[path].ftype # "absent"
                       => EntriesFor(r.events, "notfound", path) = <<>>

\* An audit found nothing at the plain path, reported it as not found and
\* reported nothing else.
C27_Witness ==
    /\ op = "do_verify"
    /\ result = "Returned"
    /\ \E i \in DOMAIN files : files[i].path = PlainPath
    /\ events = <<NotFoundEntry(PlainPath), ReturnEv(TRUE, FALSE)>>

(***************************************************************************)
(* C28: for a row that is audited and whose path is there, a live uid or   *)
(* gid that is not the recorded one makes a warning for the path, a live   *)
(* mode that is not the recorded one makes a warning unless the path ends  *)
(* with ".pyc", a row whose mode, uid and gid are those recorded makes no  *)
(* warning, and none of these mismatches makes an error: the errors are    *)
(* those of the audit of the same filesystem with the recorded mode and    *)
(* owner at the path.                                                      *)
(***************************************************************************)
C28_Warnings ==
    \A live \in LiveSystems :
       \A r \in {do_verifyRun(files, live)} :
          \A i \in Audited(files) :
             LET row   == files[i]
                 entry == live[row.path]
                 owner == entry.uid # row.uid \/ entry.gid # row.gid
                 mode  == entry.mode # row.mode
                 warns == Len(EntriesFor(r.events, "warning", row.path))
                 calm  == [live EXCEPT ![row.path].mode = row.mode,
                                       ![row.path].uid = row.uid,
                                       ![row.path].gid = row.gid]
             IN  (r.result = "Returned" /\ entry.ftype # "absent")
                 => /\ owner => warns = 1
                    /\ (mode /\ ~EndsWith(row.path, Pyc)) => warns = 1
                    /\ (~owner /\ ~mode) => warns = 0
                    /\ ErrorsFor(r.events, row.path)
                          = ErrorsFor(do_verifyRun(files, calm).events, row.path)

(***************************************************************************)
(* C29: do_verify never fails for what it finds in the live filesystem:    *)
(* whatever the recorded kind of a row and whatever is at its path, the    *)
(* call returns its result.                                                *)
(***************************************************************************)
C29_NeverRaises ==
    \A live \in LiveSystems : do_verifyRun(files, live).result = "Returned"

Scenario(row, entry) ==
    /\ row.kind = "file"
    /\ row.mode = Mode0644
    /\ ~row.checksum.isNone
    /\ row.checksum # Dash
    /\ entry.ftype = "file"
    /\ entry.mode = Mode0600

C31_Original ==
    \A live \in LiveSystems :
       \A r \in {do_verifyRun(files, live)} :
          \A i \in Audited(files) :
             LET row   == files[i]
                 entry == live[row.path]
             IN  (r.result = "Returned" /\ Scenario(row, entry)
                     /\ ~EndsWith(row.path, Pyc))
                 => /\ EntriesFor(r.events, "wrongtype", row.path) = <<>>
                    /\ Sha256(entry.data) = row.checksum
                          => /\ EntriesFor(r.events, "checksum", row.path) = <<>>
                             /\ Len(EntriesFor(r.events, "warning", row.path)) = 1
                    /\ Sha256(entry.data) # row.checksum
                          => /\ Len(EntriesFor(r.events, "checksum", row.path)) = 1
                             /\ EntriesFor(r.events, "warning", row.path) = <<>>

(***************************************************************************)
(* C31: for a row of kind file recorded with mode 0644 and the checksum H, *)
(* at a path that is audited and does not end with ".pyc", a live regular  *)
(* file with mode 0600 gets no wrongtype entry and one warning, whatever   *)
(* its bytes; it gets no checksum entry when its bytes hash to H and one   *)
(* checksum entry when they do not.                                        *)
(***************************************************************************)
C31_AuditScenario ==
    \A live \in LiveSystems :
       \A r \in {do_verifyRun(files, live)} :
          \A i \in Audited(files) :
             LET row   == files[i]
                 entry == live[row.path]
             IN  (r.result = "Returned" /\ Scenario(row, entry)
                     /\ ~EndsWith(row.path, Pyc))
                 => /\ EntriesFor(r.events, "wrongtype", row.path) = <<>>
                    /\ EntriesFor(r.events, "warning", row.path) = <<WarnEntry(row.path)>>
                    /\ Sha256(entry.data) = row.checksum
                          => EntriesFor(r.events, "checksum", row.path) = <<>>
                    /\ Sha256(entry.data) # row.checksum
                          => EntriesFor(r.events, "checksum", row.path)
                                = <<ChecksumEntry(row.path)>>

\* An audit of the file recorded at the plain path alone reported a warning
\* and a wrong checksum for it.
C31_Witness ==
    /\ op = "do_verify"
    /\ result = "Returned"
    /\ Len(files) = 1
    /\ Scenario(files[1], [ftype |-> "file", mode |-> Mode0600])
    /\ files[1].path = PlainPath
    /\ events = <<WarnEntry(PlainPath), ChecksumEntry(PlainPath), ReturnEv(TRUE, TRUE)>>

(***************************************************************************)
(* C34 as stated: in the result of do_verify a row of kind dir, a row with *)
(* no checksum and a row with the checksum "-" have no checksum entry, and *)
(* every other row whose path is there has a checksum entry exactly when   *)
(* the digest of its subject (the bytes of the file, or the link target    *)
(* without a leading "/") is not the recorded checksum.                    *)
(***************************************************************************)
Unchecked(row) == row.kind = "dir" \/ row.checksum.isNone \/ row.checksum = Dash
Subject(row, entry) ==
    IF row.kind = "slink" THEN StripSlash(entry.data) ELSE ReadThrough(entry)

C34_Original ==
    \A live \in LiveSystems :
       \A r \in {do_verifyRun(files, live)} :
          \A i \in Audited(files) :
             LET row   == files[i]
                 entry == live[row.path]
                 found == EntriesFor(r.events, "checksum", row.path)
             IN  r.result = "Returned"
                 => /\ Unchecked(row) => found = <<>>
                    /\ (~Unchecked(row) /\ entry.ftype # "absent")
                          => /\ Len(found) <= 1
                             /\ found # <<>>
                                   <=> Sha256(Subject(row, entry)) # row.checksum

(***************************************************************************)
(* C34: in the result of do_verify a row of kind dir, a row with no        *)
(* checksum, a row with the checksum "-" and a row of kind file whose path *)
(* ends with ".pyc" have no checksum entry, whatever is at the path; every *)
(* other row whose path is there has a checksum entry exactly when the     *)
(* digest of its subject is not the recorded checksum.                     *)
(***************************************************************************)
C34_ChecksumComparison ==
    \A live \in LiveSystems :
       \A r \in {do_verifyRun(files, live)} :
          \A i \in Audited(files) :
             LET row   == files[i]
                 entry == live[row.path]
                 found == EntriesFor(r.events, "checksum", row.path)
                 cache == row.kind = "file" /\ EndsWith(row.path, Pyc)
             IN  r.result = "Returned"
                 => /\ (Unchecked(row) \/ cache) => found = <<>>
                    /\ (~Unchecked(row) /\ ~cache /\ entry.ftype # "absent")
                          => /\ Len(found) <= 1
                             /\ found # <<>>
                                   <=> Sha256(Subject(row, entry)) # row.checksum

\* An audit of a link recorded with the digest of <<1>> and of the file
\* recorded at the .pyc path reported a wrong checksum for the link alone,
\* and nothing else.
C34_Witness ==
    /\ op = "do_verify"
    /\ result = "Returned"
    /\ \E i \in DOMAIN files :
          /\ files[i].path = PlainPath
          /\ files[i].kind = "slink"
          /\ files[i].checksum = Sha256(<<1>>)
    /\ \E i \in DOMAIN files : files[i].path = PycPath
    /\ events = <<ChecksumEntry(PlainPath), ReturnEv(TRUE, FALSE)>>

(***************************************************************************)
(* C38: in the result of do_verify error_flag is set exactly when one of   *)
(* the lists checksum, wrongtype and notfound has an entry, warn_flag is   *)
(* set exactly when the list of warnings has one, and a row whose path is  *)
(* on the skip list has no entry in any list.                              *)
(***************************************************************************)
Returns(evs) == SelectSeq(evs, LAMBDA e : e.ev = "return")

C38_Flags ==
    \A live \in LiveSystems :
       \A r \in {do_verifyRun(files, live)} :
          r.result = "Returned"
          => /\ Len(Returns(r.events)) = 1
             /\ Returns(r.events)[1].error_flag
                   <=> \E i \in DOMAIN r.events :
                          r.events[i].ev \in {"checksum", "wrongtype", "notfound"}
             /\ Returns(r.events)[1].warn_flag
                   <=> \E i \in DOMAIN r.events : r.events[i].ev = "warning"
             /\ \A i \in DOMAIN files :
                   is_ignore_path(files[i].path) => AllFor(r.events, files[i].path) = <<>>

\* An audit of the file recorded under /etc and of the link recorded at
\* the plain path found nothing at the plain path: it set error_flag for
\* it and reported nothing for the file under /etc.
C38_Witness ==
    /\ op = "do_verify"
    /\ result = "Returned"
    /\ Len(files) = 2
    /\ \E i \in DOMAIN files : files[i].path = EtcPath
    /\ \E i \in DOMAIN files : files[i].path = PlainPath
    /\ events = <<NotFoundEntry(PlainPath), ReturnEv(TRUE, FALSE)>>

(***************************************************************************)
(* C32: when FindPackageFile is given a directory to save to and a file    *)
(* fetched fails its checksum, the file saved is unlinked before the next  *)
(* candidate is tried and is not there when the call ends, and the next    *)
(* call that fetches this file asks for it from byte 0.                    *)
(***************************************************************************)
Failed(evs) == {k \in DOMAIN evs : evs[k].ev = "Verify" /\ ~evs[k].ok}
SavingRuns(svd) ==
    {FindPackageFileRun(packages, package_dir, svd, {}, package, None, TRUE, TRUE,
                        net, FileSize) : package \in SavedPackages, net \in SavedNets}

C32_UnlinkOnMismatch ==
    \A r \in SavingRuns(saved) :
       \A k \in Failed(r.events) :
          /\ k < Len(r.events)
          /\ r.events[k + 1] = [ev |-> "UnlinkSaved", Filename |-> r.events[k].Filename]
          /\ ~FileAt(r.saved, r.events[k].Filename).exists
          /\ \A later \in SavingRuns(r.saved) :
                \A j \in DOMAIN later.events :
                   (/\ later.events[j].ev = "Fetch"
                    /\ later.events[j].Filename = r.events[k].Filename)
                   => /\ j < Len(later.events)
                      /\ later.events[j + 1].ev = "Get"
                      /\ later.events[j + 1].from = 0

\* A search fetched the file onto what an earlier search had saved, found
\* its checksum wrong and unlinked it: it is not in the directory.
C32_Witness ==
    /\ op = "FindPackageFile"
    /\ \E k \in Failed(events) :
          /\ k < Len(events)
          /\ events[k + 1].ev = "UnlinkSaved"
          /\ \E j \in 1..k : events[j].ev = "Get" /\ events[j].from > 0
          /\ ~FileAt(saved, events[k].Filename).exists

(***************************************************************************)
(* C33: in the chunk loop of TryGetNetworkFile the handler is called only  *)
(* when a handler is given and the total size is known, and then at the    *)
(* chunks, and only at those, after which the whole percentage read is not *)
(* the one after the chunk before (0 before the first); so the percentages *)
(* passed to it grow strictly, and it is called once for every percentage  *)
(* other than 0 that is reached, however many chunks there are.            *)
(***************************************************************************)
Calls(evs) == SelectSeq(evs, LAMBDA e : e.ev = "Handler")
ReadAfter(read, chunks, i) == read + Sum(SubSeq(chunks, 1, i))

C33_ProgressCallbacks ==
    /\ op = "StreamBody"
          => \A j, k \in DOMAIN Calls(events) :
                j < k => Calls(events)[j].progress < Calls(events)[k].progress
    /\ \A handler \in BOOLEAN, sendsLength \in BOOLEAN, short \in Shortfalls :
          \A read \in Offsets, chunks \in ChunkLists :
             LET evs   == StreamBodyRun(handler, sendsLength, short, read, chunks)
                 total == read + Sum(chunks)
                 pct   == [i \in 0..Len(chunks) |->
                             IF i = 0 \/ total = 0 THEN 0
                             ELSE Percent(ReadAfter(read, chunks, i), total, short)]
                 at    == {i \in 1..Len(chunks) : pct[i] # pct[i - 1]}
             IN  /\ (~handler \/ ~sendsLength \/ total = 0) => Calls(evs) = <<>>
                 /\ (handler /\ sendsLength /\ total # 0)
                       => /\ \A i \in 1..Len(chunks) :
                                \E k \in DOMAIN evs :
                                   /\ evs[k] = ChunkEv(ReadAfter(read, chunks, i))
                                   /\ i \in at
                                         <=> /\ k < Len(evs)
                                             /\ evs[k + 1] = HandlerEv(total, pct[i])
                          /\ Len(Calls(evs)) = Cardinality(at)
                          /\ Len(Calls(evs)) = Cardinality({pct[i] : i \in 1..Len(chunks)} \ {0})
                 /\ \A j, k \in DOMAIN Calls(evs) :
                       j < k => Calls(evs)[j].progress < Calls(evs)[k].progress

\* A body read in three chunks onto 71 bytes, with a handler and the total
\* size known: the handler was called after the first chunk and after the
\* third, not after the second, which left the percentage where it was.
C33_Witness ==
    /\ op = "StreamBody"
    /\ events = <<ChunkEv(72), HandlerEv(171, 42), ChunkEv(73), ChunkEv(171),
                  HandlerEv(171, 100)>>

(***************************************************************************)
(* C35: when a method of the store has ended, by a return or by a raise,   *)
(* the connection it opened is closed: no connection is open between two   *)
(* calls.                                                                  *)
(***************************************************************************)
C35_ConnectionClosed == conn = "closed"

(***************************************************************************)
(* C36: after any calls of the store every row of table files and every    *)
(* row of table scripts names a package that has a row in table packages.  *)
(***************************************************************************)
C36_NoOrphans ==
    /\ \A i \in DOMAIN files : FindPackage(packages, files[i].package) # None
    /\ \A i \in DOMAIN scripts : FindPackage(packages, scripts[i].package) # None

(***************************************************************************)
(* C37: after any calls of SetUpdateServer, AddUpdateServer and            *)
(* RemoveUpdateServer and any reloads of the configuration file, the       *)
(* selected name is a key of the registered update servers, and the key    *)
(* "default" holds the built-in default server.                            *)
(***************************************************************************)
C37_ServerRegistry ==
    /\ config.update_server_name \in Keys(config.update_servers)
    /\ Entry(default_update_server.name, default_update_server) \in config.update_servers

====
